---- MODULE Spec2Model ----
(***************************************************************************)
(* Model of the agent control plane of cokra-rs: the spawn guards          *)
(* (core/src/agent/guards.rs), the thread registry                         *)
(* (core/src/thread_manager.rs) and AgentControl                           *)
(* (core/src/agent/control.rs).                                            *)
(***************************************************************************)
EXTENDS Integers, Naturals, Sequences, FiniteSets, TLC

(***************************************************************************)
(* Bounds of the model.                                                    *)
(***************************************************************************)
\* number of concurrent callers (OS threads / tokio tasks)
NumProcs == 2
\* the configured max_threads N ranges over 0..MaxLimit
MaxLimit == 2
\* thread ids a direct caller of Guards may pass to commit / release
NumIds == 2
\* cap of the counter in unbounded mode (max_threads = None)
MaxCount == 3

\* thread ids ThreadId::new() hands out before the model stops spawning
MaxThreadIds == 2
\* the depth argument of spawn_agent ranges over 0..MaxDepthArg
MaxDepthArg == 2

\* submissions a client makes before the model stops submitting
MaxSubs == 3
\* process_turn calls a caller makes before the model stops calling
MaxTurns == 2
\* function calls one model stream carries at most
MaxCalls == 2
\* content deltas the provider sends in a run
MaxDeltas == 1
\* model streams of a run that carry more than one function call
MaxMulti == 1
\* model streams with function calls in a run of several turns
MaxRounds == 2
\* tool outputs with an unusual id or content, over the turns of a model
MaxOdd == 1
\* ChatRequests followed per process_turn call
MaxReqs == 2
\* characters of a string
MaxStr == 4
\* nesting depth of a JSON value
MaxNest == 2
\* parse calls on one usage parser
MaxParses == 3
\* largest token count in a usage object
MaxTok == 1
\* characters of a tool-call id
MaxIdLen == 10
\* characters of the tool-call ids of a request with two calls
MaxPairLen == 2
\* bytes of a response body
MaxBody == 6
\* chunks of a provider stream
MaxChunks == 4
\* call ids a provider uses
NumCallIds == 2

\* guards.rs:9
MAX_THREAD_SPAWN_DEPTH == 1

Procs == 1..NumProcs
Ids == 1..NumIds
None == "None"
\* the id of the root thread; spawned threads get 1, 2, ...
Root == 0
\* the task strings callers pass: empty, blank, and a real task
Whitespace == {" "}
Tasks == {<<>>, <<" ">>, <<"t">>}

VARIABLES
  total_count,   \* Guards.total_count (AtomicUsize); it never goes below 0
                 \* (C3_CountAccounting), so the wrap of usize is not reached
  threads_set,   \* Guards.threads_set (Mutex<HashSet<ThreadId>>)
  limit,         \* the N of max_threads = Some(N) used by the callers
  pc,            \* per caller: position in the operation it executes
  cur,           \* per caller: local `current` of try_increment_spawned
  maxT,          \* per caller: argument max_threads of the running reserve
  tid,           \* per caller: argument thread_id of the running release
  removed,       \* per caller: local `removed` of release_spawned_thread
  last,          \* history: the operation that completed last, with its outcome
  unbounded,     \* history: some reservation was requested with None
  net,           \* history: commits minus releases that released an id
  dups,          \* history: commits of an id that was already registered
  threads,       \* ThreadManagerState.threads: thread id -> ThreadInfo.depth
  nextId,        \* the id the next ThreadId::new() returns
  events,        \* the events sent on AgentControl.tx_event so far
  created,       \* the ids published on thread_created_tx so far
  depthArg,      \* per caller: argument depth of the running spawn_agent
  newId,         \* per caller: local thread_id of the running spawn_agent
  lastDepth,     \* history: argument depth of the call that returned last, if
                 \* it was a spawn_agent, and 0 otherwise
  status,        \* AgentControl.status (RwLock<AgentStatus>)
  watch,         \* the latest value of the status watch channel (status_tx)
  turn_config,   \* AgentControl.turn_config (RwLock<TurnConfig>)
  apc,           \* per caller: position in start / process_turn / stop
  cfgSnap,       \* per caller: the TurnConfig clone of the running process_turn
  reqCfg,        \* history, per caller: the configuration each ChatRequest of
                 \* its running process_turn carried
  reqFrom,       \* history: the status the last transition request found
  req,           \* history: the status the last transition request asked for
  turnFrom,      \* history, per caller: the status its running process_turn
                 \* found when it started ("none" when it runs none)
  disturbed,     \* history, per caller: another caller changed the status
                 \* while its process_turn was running
  turnRet,       \* history, per caller: what its last process_turn returned
  epc,           \* position of the process_turn future the submission loop (or
                 \* another single caller) drives, "idle" when there is none
  iter,          \* run_sse_interaction: iterations of the loop begun
  assistant_delta, \* run_sse_interaction: assistant_delta is not empty
  function_calls,  \* run_sse_interaction: function_calls not yet executed
  history,       \* Session.history
  raw,           \* the raw event channel (tx_raw_event -> rx_raw_event)
  result,        \* the Result of the turn: "none", "Ok", or the TurnError
  modelCalls,    \* history: responses_stream calls of the current turn
  provider,      \* what the provider still sends: streams with function calls
                 \* (rounds), content deltas, streams with several calls (multi)
  turnNo,        \* history: number of process_turn futures created so far
  client,        \* history: the events sent on the client event channel
  rx_sub,        \* the submission channel (tx_sub -> rx_sub)
  queue,         \* submission_loop: the internal FIFO `queue`
  lpc,           \* position of the submission loop
  processed,     \* history: the submissions handled so far, in order
  nextSub,       \* the number of the next submission
  messages,      \* run_sse_interaction: the message list `messages`
  request,       \* the messages of the ChatRequest sent last in this turn
  outputs,       \* history: the ToolOutputs the handlers returned for the
                 \* calls of the last Assistant message, with their calls
  detail,        \* history: the message of the turn's error and the
                 \* user_facing_message of the Error event run_turn sent
  approval_policy, \* Config.approval.policy (ApprovalMode)
  tool_name,     \* validate_tool_call: call.tool_name
  value,         \* a JSON value (serde_json::Value) that becomes an argument
  nest,          \* the nesting depth of `value`
  args,          \* validate_tool_call: call.args, a JSON object
  verdict,       \* the result of validate_tool_call, "none" before the call
  source,        \* history: the chunks the projector has read from chunk_stream
  out,           \* the ResponseEvents the projector has yielded, each with the
                 \* number `at` of the chunk read last when it was yielded
  text_index,    \* chunk_stream_to_response_events: text_index
  buffer,        \* chunk_stream_to_response_events: function_calls, a
                 \* BTreeMap from call id to the call's name, with the number
                 \* `first` of the chunk that inserted the call
  active_call_id,   \* chunk_stream_to_response_events: active_call_id
  emitted_end_turn, \* chunk_stream_to_response_events: emitted_end_turn
  ppc,           \* the projected stream: "run", or "done" when it has ended
  usage,         \* per kind of UsageParser: its field `usage`, an Option written
                 \* as a set of at most one Usage
  retrieved,     \* history: what retrieve() returned after each parse call
  raw_id,        \* normalize_tool_call_id: the argument `id`
  format,        \* normalize_tool_call_id: `format`, "none" before the call
  normalized,    \* the String normalize_tool_call_id returned
  call_ids,      \* the ids of the tool calls of one request to Anthropic
  blocks,        \* the tool_use and tool_result blocks to_anthropic_message
                 \* made for those calls and for their results
  alive,         \* the Cokra runtimes of the process that are spawned and not
                 \* shut down
  SPAWN_RUNTIME, \* the process-wide slot: the runtime whose AgentControl it
                 \* holds, or "None"
  registry,      \* per runtime: the threads spawn_agent registered with its
                 \* AgentControl
  tool_result,   \* history: the runtime whose turn made the last spawn_agent
                 \* tool call and what the call reached
  body,          \* history: the response body bytes read so far
  sse_buffer,    \* StreamingProcessor.buffer
  yielded,       \* the Chunks create_response_stream_with_usage_parser yielded
  spc            \* the response stream: "read", or "done" when it has ended

guardVars == <<total_count, threads_set>>
procVars == <<pc, cur, maxT, tid, removed>>
histVars == <<limit, last, unbounded, net, dups>>
ctlVars == <<threads, nextId, events, created, depthArg, newId, lastDepth>>
agentVars == <<status, watch, turn_config, apc, cfgSnap, reqCfg, reqFrom, req, turnFrom,
               disturbed, turnRet>>
spawnVars == <<total_count, threads_set, limit, pc, cur, maxT, tid, removed, last,
               unbounded, net, dups, threads, nextId, events, created, depthArg,
               newId, lastDepth>>
callerVars == <<apc, cfgSnap, reqCfg, turnFrom, disturbed, turnRet>>
reqVars == <<messages, request, outputs, detail>>
execVars == <<epc, iter, assistant_delta, function_calls, history, raw, result,
              modelCalls, provider, reqVars>>
\* the configuration and the state of the tools and of the stream projector
validateVars == <<tool_name, value, nest, args, verdict>>
projVars == <<source, out, text_index, buffer, active_call_id, emitted_end_turn,
              ppc>>
\* the state of the wire layer: usage parsers, id normalization, SSE reader
usageVars == <<usage, retrieved>>
normVars == <<raw_id, format, normalized, call_ids, blocks>>
slotVars == <<alive, SPAWN_RUNTIME, registry, tool_result>>
sseVars == <<body, sse_buffer, yielded, spc>>
wireVars == <<usageVars, normVars, slotVars, sseVars>>
toolVars == <<approval_policy, validateVars, projVars, wireVars>>
loopVars == <<client, rx_sub, queue, lpc, processed, nextSub>>
turnVars == <<turnNo, execVars, loopVars>>
\* the variables the spawn model (Guards, registry, spawn_agent) leaves alone
spawnFrame == <<agentVars, turnVars, toolVars>>
\* the variables the status model (start, process_turn, stop) leaves alone
agentFrame == <<spawnVars, turnVars, toolVars>>
vars == <<total_count, threads_set, limit, pc, cur, maxT, tid, removed, last,
          unbounded, net, dups, threads, nextId, events, created, depthArg,
          newId, lastDepth, status, watch, turn_config, apc, cfgSnap, reqCfg, reqFrom,
          req, turnFrom, disturbed, turnRet, epc, iter, assistant_delta,
          function_calls, history, raw, result, modelCalls, provider, turnNo,
          client, rx_sub, queue, lpc, processed, nextSub, messages, request,
          outputs, detail, approval_policy, tool_name, value, nest, args,
          verdict, source, out, text_index, buffer, active_call_id,
          emitted_end_turn, ppc,
          usage, retrieved,
          raw_id, format, normalized, call_ids, blocks,
          alive, SPAWN_RUNTIME, registry, tool_result,
          body, sse_buffer, yielded, spc>>

(***************************************************************************)
(* Guards (guards.rs)                                                      *)
(***************************************************************************)

\* Guards::default(): empty set, counter 0
GuardsInit ==
  /\ total_count = 0
  /\ threads_set = {}

ProcInit ==
  /\ pc = [p \in Procs |-> "idle"]
  /\ cur = [p \in Procs |-> 0]
  /\ maxT = [p \in Procs |-> None]
  /\ tid = [p \in Procs |-> 0]
  /\ removed = [p \in Procs |-> FALSE]

\* the depth test off by one: depth MAX_THREAD_SPAWN_DEPTH + 1 passes
ExceedsDepthOffByOne(depth) == depth > MAX_THREAD_SPAWN_DEPTH + 1

\* exceeds_thread_spawn_depth_limit(depth)
exceeds_thread_spawn_depth_limit(depth) == depth > MAX_THREAD_SPAWN_DEPTH

\* the loop test written with > instead of >=
LimitReachedOffByOne(current, max_threads) == current > max_threads

\* the loop test of try_increment_spawned: `if current >= max_threads`
LimitReached(current, max_threads) == current >= max_threads

\* reserve_spawn_slot(None): total_count.fetch_add(1); Ok(SpawnReservation{active})
ReserveUnbounded(p, okLabel) ==
  /\ pc[p] = "idle"
  /\ total_count < MaxCount
  /\ total_count' = total_count + 1
  /\ pc' = [pc EXCEPT ![p] = okLabel]
  /\ maxT' = [maxT EXCEPT ![p] = None]
  /\ unbounded' = TRUE
  /\ UNCHANGED <<threads_set, cur, tid, removed>>

\* reserve_spawn_slot(Some(m)) entering try_increment_spawned:
\* `let mut current = self.total_count.load(Acquire)`
ReserveLoad(p, m) ==
  /\ pc[p] = "idle"
  /\ pc' = [pc EXCEPT ![p] = "try_inc"]
  /\ maxT' = [maxT EXCEPT ![p] = m]
  /\ cur' = [cur EXCEPT ![p] = total_count]
  /\ UNCHANGED <<total_count, threads_set, tid, removed, unbounded>>

\* loop head: `if current >= max_threads { return false }`, and the caller's
\* `return Err(GuardError::AgentLimitReached { max_threads })`
TryIncLimit(p) ==
  /\ pc[p] = "try_inc"
  /\ LimitReached(cur[p], maxT[p])
  /\ pc' = [pc EXCEPT ![p] = "idle"]
  /\ cur' = [cur EXCEPT ![p] = 0]
  /\ maxT' = [maxT EXCEPT ![p] = None]
  /\ UNCHANGED <<total_count, threads_set, tid, removed, unbounded>>

\* the value compare_exchange_weak(current, current + 1) stores when it succeeds
CasStore(current) == current + 1

\* compare_exchange_weak succeeds: Ok(_) => return true; Ok(SpawnReservation)
TryIncCasOk(p, okLabel) ==
  /\ pc[p] = "try_inc"
  /\ ~LimitReached(cur[p], maxT[p])
  /\ total_count = cur[p]
  /\ total_count' = CasStore(cur[p])
  /\ pc' = [pc EXCEPT ![p] = okLabel]
  /\ cur' = [cur EXCEPT ![p] = 0]
  /\ maxT' = [maxT EXCEPT ![p] = None]
  /\ UNCHANGED <<threads_set, tid, removed, unbounded>>

\* a failed compare_exchange_weak taken for a reached limit: return false
TryIncCasGiveUp(p) ==
  /\ pc[p] = "try_inc"
  /\ ~LimitReached(cur[p], maxT[p])
  /\ pc' = [pc EXCEPT ![p] = "idle"]
  /\ cur' = [cur EXCEPT ![p] = 0]
  /\ maxT' = [maxT EXCEPT ![p] = None]
  /\ UNCHANGED <<total_count, threads_set, tid, removed, unbounded>>

\* compare_exchange_weak fails (another update, or spuriously):
\* Err(updated) => current = updated
TryIncCasRetry(p) ==
  /\ pc[p] = "try_inc"
  /\ ~LimitReached(cur[p], maxT[p])
  /\ cur' = [cur EXCEPT ![p] = total_count]
  /\ UNCHANGED <<total_count, threads_set, pc, maxT, tid, removed, unbounded>>

\* a Drop that does not look at `active`
DropCountIgnoresActive(count, active) == count - 1

\* a Drop that never gives the slot back
DropCountLeak(count, active) == count

\* the counter after Drop for SpawnReservation: `if self.active { fetch_sub(1) }`
DropCount(count, active) == IF active THEN count - 1 ELSE count

\* a commit that does not record the thread id
RegisterNothing(set, thread_id) == set

\* register_spawned_thread: threads.insert(thread_id)
register_spawned_thread(set, thread_id) == set \cup {thread_id}

\* SpawnReservation::commit(thread_id): register, active = false, then the
\* consumed reservation is dropped with active = false
Commit(p, thread_id, fromLabel, toLabel) ==
  /\ pc[p] = fromLabel
  /\ threads_set' = register_spawned_thread(threads_set, thread_id)
  /\ pc' = [pc EXCEPT ![p] = toLabel]
  /\ net' = net + 1
  /\ dups' = IF thread_id \in threads_set THEN dups + 1 ELSE dups
  /\ total_count' = DropCount(total_count, FALSE)
  /\ UNCHANGED <<cur, maxT, tid, removed>>

\* an uncommitted (active) reservation goes out of scope
DropReservation(p, fromLabel) ==
  /\ pc[p] = fromLabel
  /\ total_count' = DropCount(total_count, TRUE)
  /\ pc' = [pc EXCEPT ![p] = "idle"]
  /\ UNCHANGED <<threads_set, cur, maxT, tid, removed>>

\* release_spawned_thread, first half, under the mutex:
\* `let removed = threads.remove(&thread_id)`
ReleaseRemove(p, thread_id, fromLabel) ==
  /\ pc[p] = fromLabel
  /\ removed' = [removed EXCEPT ![p] = thread_id \in threads_set]
  /\ threads_set' = threads_set \ {thread_id}
  /\ tid' = [tid EXCEPT ![p] = thread_id]
  /\ pc' = [pc EXCEPT ![p] = "release"]
  /\ UNCHANGED <<total_count, cur, maxT>>

\* a release that decrements without looking at `removed`
ReleaseCountAlways(count, wasRemoved) == count - 1

\* the counter after `if removed { self.total_count.fetch_sub(1) }`
ReleaseCount(count, wasRemoved) == IF wasRemoved THEN count - 1 ELSE count

\* release_spawned_thread, second half
ReleaseFinish(p) ==
  /\ pc[p] = "release"
  /\ total_count' = ReleaseCount(total_count, removed[p])
  /\ pc' = [pc EXCEPT ![p] = "idle"]
  /\ net' = IF removed[p] THEN net - 1 ELSE net
  /\ tid' = [tid EXCEPT ![p] = 0]
  /\ removed' = [removed EXCEPT ![p] = FALSE]
  /\ UNCHANGED <<threads_set, cur, maxT>>

(***************************************************************************)
(* Thread registry (thread_manager.rs) and AgentControl (control.rs)        *)
(***************************************************************************)

\* ThreadManagerState::new(root): the registry holds the root, depth 0
ControlInit ==
  /\ threads = [i \in {Root} |-> 0]
  /\ nextId = 1
  /\ events = <<>>
  /\ created = <<>>
  /\ depthArg = [p \in Procs |-> 0]
  /\ newId = [p \in Procs |-> 0]
  /\ lastDepth = 0

\* task.trim().is_empty()
IsBlank(task) == \A i \in 1..Len(task) : task[i] \in Whitespace

\* ThreadManagerState::spawn_thread: threads.insert(thread_id, info)
spawn_thread(reg, thread_id, depth) ==
  [i \in DOMAIN reg \cup {thread_id} |-> IF i = thread_id THEN depth ELSE reg[i]]

\* ThreadManagerState::remove_thread: threads.remove(thread_id)
remove_thread(reg, thread_id) ==
  [i \in DOMAIN reg \ {thread_id} |-> reg[i]]

\* ThreadManagerState::list_thread_ids
list_thread_ids == DOMAIN threads

\* callers inside a spawn_agent that passed its checks and has not yet
\* created its thread id
SpawnsAhead ==
  {p \in Procs : pc[p] \in {"try_inc", "send_begin", "spawn_thread"}}

\* the model stops spawning when the thread ids are used up
IdsLeft == nextId + Cardinality(SpawnsAhead) <= MaxThreadIds

\* spawn_agent: `if task.trim().is_empty() { bail!(...) }`
SpawnRejectTask(p) ==
  /\ pc[p] = "idle"
  /\ \E task \in Tasks, depth \in 0..MaxDepthArg :
       /\ IsBlank(task)
       /\ last' = "EmptyTask"
       /\ lastDepth' = depth
  /\ UNCHANGED <<total_count, threads_set, limit, pc, cur, maxT, tid, removed,
                 unbounded, net, dups, threads, nextId, events, created,
                 depthArg, newId>>
  /\ UNCHANGED spawnFrame

\* spawn_agent: `if exceeds_thread_spawn_depth_limit(depth) { bail!(...) }`
SpawnRejectDepth(p) ==
  /\ pc[p] = "idle"
  /\ \E task \in Tasks, depth \in 0..MaxDepthArg :
       /\ ~IsBlank(task)
       /\ exceeds_thread_spawn_depth_limit(depth)
       /\ last' = "DepthExceeded"
       /\ lastDepth' = depth
  /\ UNCHANGED <<total_count, threads_set, limit, pc, cur, maxT, tid, removed,
                 unbounded, net, dups, threads, nextId, events, created,
                 depthArg, newId>>
  /\ UNCHANGED spawnFrame

\* spawn_agent passes its checks and calls reserve_spawn_slot(None)
SpawnReserveNone(p) ==
  /\ IdsLeft
  /\ \E task \in Tasks, depth \in 0..MaxDepthArg :
       /\ ~IsBlank(task)
       /\ ~exceeds_thread_spawn_depth_limit(depth)
       /\ depthArg' = [depthArg EXCEPT ![p] = depth]
  /\ ReserveUnbounded(p, "send_begin")
  /\ UNCHANGED <<limit, last, net, dups, threads, nextId, events, created,
                 newId, lastDepth>>
  /\ UNCHANGED spawnFrame

\* spawn_agent passes its checks and calls reserve_spawn_slot(Some(limit))
SpawnReserveSome(p) ==
  /\ IdsLeft
  /\ \E task \in Tasks, depth \in 0..MaxDepthArg :
       /\ ~IsBlank(task)
       /\ ~exceeds_thread_spawn_depth_limit(depth)
       /\ depthArg' = [depthArg EXCEPT ![p] = depth]
  /\ ReserveLoad(p, limit)
  /\ UNCHANGED <<limit, last, net, dups, threads, nextId, events, created,
                 newId, lastDepth>>
  /\ UNCHANGED spawnFrame

\* reserve_spawn_slot returned Err: `.map_err(anyhow::Error::from)?`
SpawnLimit(p) ==
  /\ TryIncLimit(p)
  /\ last' = "AgentLimitReached"
  /\ lastDepth' = depthArg[p]
  /\ depthArg' = [depthArg EXCEPT ![p] = 0]
  /\ UNCHANGED <<limit, net, dups, threads, nextId, events, created, newId>>
  /\ UNCHANGED spawnFrame

SpawnCasOk(p) ==
  /\ TryIncCasOk(p, "send_begin")
  /\ UNCHANGED <<limit, last, net, dups>> /\ UNCHANGED ctlVars
  /\ UNCHANGED spawnFrame

SpawnCasRetry(p) ==
  /\ TryIncCasRetry(p)
  /\ UNCHANGED <<limit, last, net, dups>> /\ UNCHANGED ctlVars
  /\ UNCHANGED spawnFrame

\* `tx_event.send(EventMsg::CollabAgentSpawnBegin(..)).await` completes
SendBegin(p) ==
  /\ pc[p] = "send_begin"
  /\ events' = Append(events, "CollabAgentSpawnBegin")
  /\ pc' = [pc EXCEPT ![p] = "spawn_thread"]
  /\ UNCHANGED <<total_count, threads_set, limit, cur, maxT, tid, removed, last,
                 unbounded, net, dups, threads, nextId, created, depthArg,
                 newId, lastDepth>>
  /\ UNCHANGED spawnFrame

\* the spawn_agent future is dropped while it waits in the first send: the
\* live reservation is dropped with it
CancelAtBegin(p) ==
  /\ DropReservation(p, "send_begin")
  /\ last' = "Cancelled"
  /\ lastDepth' = depthArg[p]
  /\ depthArg' = [depthArg EXCEPT ![p] = 0]
  /\ UNCHANGED <<limit, unbounded, net, dups, threads, nextId, events, created,
                 newId>>
  /\ UNCHANGED spawnFrame

\* a spawn_thread after which the id is published before the commit
SpawnThreadThenNotify(p) ==
  /\ pc[p] = "spawn_thread"
  /\ threads' = spawn_thread(threads, nextId, depthArg[p])
  /\ newId' = [newId EXCEPT ![p] = nextId]
  /\ nextId' = nextId + 1
  /\ pc' = [pc EXCEPT ![p] = "notify"]
  /\ UNCHANGED <<total_count, threads_set, limit, cur, maxT, tid, removed, last,
                 unbounded, net, dups, events, created, depthArg, lastDepth>>
  /\ UNCHANGED spawnFrame

\* `let thread_id = manager.spawn_thread(parent_thread_id, depth, role, task)`
SpawnThread(p) ==
  /\ pc[p] = "spawn_thread"
  /\ threads' = spawn_thread(threads, nextId, depthArg[p])
  /\ newId' = [newId EXCEPT ![p] = nextId]
  /\ nextId' = nextId + 1
  /\ pc' = [pc EXCEPT ![p] = "commit"]
  /\ UNCHANGED <<total_count, threads_set, limit, cur, maxT, tid, removed, last,
                 unbounded, net, dups, events, created, depthArg, lastDepth>>
  /\ UNCHANGED spawnFrame

\* `reservation.commit(thread_id.clone())`
SpawnCommit(p) ==
  /\ Commit(p, newId[p], "commit", "notify")
  /\ UNCHANGED <<limit, last, unbounded>> /\ UNCHANGED ctlVars
  /\ UNCHANGED spawnFrame

\* `manager.notify_thread_created(thread_id.clone())`
NotifyCreated(p) ==
  /\ pc[p] = "notify"
  /\ created' = Append(created, newId[p])
  /\ pc' = [pc EXCEPT ![p] = "send_end"]
  /\ UNCHANGED <<total_count, threads_set, limit, cur, maxT, tid, removed, last,
                 unbounded, net, dups, threads, nextId, events, depthArg, newId,
                 lastDepth>>
  /\ UNCHANGED spawnFrame

\* the locals of a spawn_agent call that returns
SpawnReturn(p, outcome) ==
  /\ pc' = [pc EXCEPT ![p] = "idle"]
  /\ last' = outcome
  /\ lastDepth' = depthArg[p]
  /\ depthArg' = [depthArg EXCEPT ![p] = 0]
  /\ newId' = [newId EXCEPT ![p] = 0]

\* `tx_event.send(EventMsg::CollabAgentSpawnEnd(..)).await` completes; Ok(thread_id)
SendEnd(p) ==
  /\ pc[p] = "send_end"
  /\ events' = Append(events, "CollabAgentSpawnEnd")
  /\ SpawnReturn(p, "Spawned")
  /\ UNCHANGED <<total_count, threads_set, limit, cur, maxT, tid, removed,
                 unbounded, net, dups, threads, nextId, created>>
  /\ UNCHANGED spawnFrame

\* the spawn_agent future is dropped while it waits in the second send: the
\* reservation was consumed by commit, nothing is undone
CancelAtEnd(p) ==
  /\ pc[p] = "send_end"
  /\ SpawnReturn(p, "Cancelled")
  /\ UNCHANGED <<total_count, threads_set, limit, cur, maxT, tid, removed,
                 unbounded, net, dups, threads, nextId, events, created>>
  /\ UNCHANGED spawnFrame

\* shutdown_spawned_agent(id): `manager.remove_thread(&thread_id)` returns false
ShutdownUnknown(p) ==
  /\ pc[p] = "idle"
  /\ \E id \in 0..(nextId - 1) :
       /\ id \notin DOMAIN threads
       /\ tid' = [tid EXCEPT ![p] = 0]
  /\ last' = "ShutdownNoop"
  /\ lastDepth' = 0
  /\ UNCHANGED <<total_count, threads_set, limit, pc, cur, maxT, removed,
                 unbounded, net, dups, threads, nextId, events, created,
                 depthArg, newId>>
  /\ UNCHANGED spawnFrame

\* shutdown_spawned_agent(id): `manager.remove_thread(&thread_id)` returns true
ShutdownRemove(p) ==
  /\ pc[p] = "idle"
  /\ \E id \in 0..(nextId - 1) :
       /\ id \in list_thread_ids
       /\ threads' = remove_thread(threads, id)
       /\ tid' = [tid EXCEPT ![p] = id]
  /\ pc' = [pc EXCEPT ![p] = "release_call"]
  /\ UNCHANGED <<total_count, threads_set, limit, cur, maxT, removed, last,
                 unbounded, net, dups, nextId, events, created, depthArg, newId,
                 lastDepth>>
  /\ UNCHANGED spawnFrame

\* `self.guards.release_spawned_thread(thread_id)`, the removal from the set
ShutdownReleaseRemove(p) ==
  /\ ReleaseRemove(p, tid[p], "release_call")
  /\ UNCHANGED <<limit, last, unbounded, net, dups>> /\ UNCHANGED ctlVars
  /\ UNCHANGED spawnFrame

\* `self.guards.release_spawned_thread(thread_id)`, the decrement; Ok(())
ShutdownReleaseFinish(p) ==
  /\ ReleaseFinish(p)
  /\ last' = "Shutdown"
  /\ lastDepth' = 0
  /\ UNCHANGED <<limit, unbounded, dups, threads, nextId, events, created,
                 depthArg, newId>>
  /\ UNCHANGED spawnFrame

(***************************************************************************)
(* AgentControl: status FSM, start / process_turn / stop (control.rs)      *)
(***************************************************************************)

\* error messages a failing turn may carry
Msgs == {"e1", "e2"}
\* the TurnConfig values set_turn_config may store
Configs == {"c1", "c2"}

St(tag) == [tag |-> tag, msg |-> ""]
ErrorSt(m) == [tag |-> "Error", msg |-> m]

\* every AgentStatus value control.rs uses
Statuses ==
  {St(t) : t \in {"PendingInit", "Initializing", "Ready", "Busy", "Shutdown"}}
    \cup {ErrorSt(m) : m \in Msgs}

\* the transitions AgentStatus::can_transition_to accepts besides s -> s
AllowedPairs ==
  { <<"PendingInit", "Initializing">>, <<"Initializing", "Ready">>,
    <<"Initializing", "Error">>,
    <<"Ready", "Busy">>, <<"Ready", "Shutdown">>,
    <<"Busy", "Ready">>, <<"Busy", "Error">>, <<"Busy", "Shutdown">>,
    <<"Error", "Ready">>, <<"Error", "Shutdown">> }

\* AgentStatus::can_transition_to
can_transition_to(from, to) ==
  from = to \/ <<from.tag, to.tag>> \in AllowedPairs

\* a transition that assigns without asking can_transition_to
TransitionUnchecked(next) ==
  /\ status' = next
  /\ watch' = next
  /\ reqFrom' = status
  /\ req' = next

\* AgentControl::transition(next), under the write lock of status
transition(next) ==
  /\ IF can_transition_to(status, next)
       THEN status' = next /\ watch' = next
       ELSE UNCHANGED <<status, watch>>
  /\ reqFrom' = status
  /\ req' = next

\* AgentControl::new: status and watch channel start as PendingInit
AgentInit ==
  /\ status = St("PendingInit")
  /\ watch = St("PendingInit")
  /\ turn_config \in Configs
  /\ apc = [p \in Procs |-> "idle"]
  /\ cfgSnap = [p \in Procs |-> "none"]
  /\ reqCfg = [p \in Procs |-> <<>>]
  /\ reqFrom = St("PendingInit")
  /\ req = St("PendingInit")
  /\ turnFrom = [p \in Procs |-> "none"]
  /\ disturbed = [p \in Procs |-> FALSE]
  /\ turnRet = [p \in Procs |-> "none"]

\* caller p is inside process_turn, after its Busy request
Running(p) == apc[p] \in {"turn_config", "run_turn"}

\* bookkeeping of `disturbed` for a step of caller p: every other caller that
\* is inside process_turn sees its turn disturbed when the step changes the status
Disturb(p) ==
  disturbed' = [q \in Procs |->
                  IF q = p THEN FALSE
                  ELSE disturbed[q] \/ (Running(q) /\ status' # status)]

\* start(): `self.transition(AgentStatus::Initializing).await`
StartInitializing(p) ==
  /\ apc[p] = "idle"
  /\ transition(St("Initializing"))
  /\ apc' = [apc EXCEPT ![p] = "start_ready"]
  /\ Disturb(p)
  /\ UNCHANGED <<turn_config, cfgSnap, turnFrom, turnRet>>
  /\ UNCHANGED <<reqCfg, agentFrame>>

\* start(): `self.transition(AgentStatus::Ready).await; Ok(())`
StartReady(p) ==
  /\ apc[p] = "start_ready"
  /\ transition(St("Ready"))
  /\ apc' = [apc EXCEPT ![p] = "idle"]
  /\ Disturb(p)
  /\ UNCHANGED <<turn_config, cfgSnap, turnFrom, turnRet>>
  /\ UNCHANGED <<reqCfg, agentFrame>>

\* process_turn(): `self.transition(AgentStatus::Busy).await`; the result of
\* the transition is not looked at
TurnBusy(p) ==
  /\ apc[p] = "idle"
  /\ transition(St("Busy"))
  /\ apc' = [apc EXCEPT ![p] = "turn_config"]
  /\ turnFrom' = [turnFrom EXCEPT ![p] = status.tag]
  /\ turnRet' = [turnRet EXCEPT ![p] = "none"]
  /\ Disturb(p)
  /\ UNCHANGED <<turn_config, cfgSnap>>
  /\ UNCHANGED <<reqCfg, agentFrame>>

\* process_turn(): `let turn_config = self.turn_config.read().await.clone()`,
\* then the executor is built and run_turn starts
TurnReadConfig(p) ==
  /\ apc[p] = "turn_config"
  /\ cfgSnap' = [cfgSnap EXCEPT ![p] = turn_config]
  /\ apc' = [apc EXCEPT ![p] = "run_turn"]
  /\ UNCHANGED <<status, watch, turn_config, reqFrom, req, turnFrom, disturbed,
                 turnRet>>
  /\ UNCHANGED <<reqCfg, agentFrame>>

\* a ChatRequest that takes its configuration from the shared TurnConfig
RequestConfigShared(config, shared) == shared

\* `model: self.config.model.clone(), temperature: self.config.temperature,
\* max_tokens: self.config.max_tokens, tools: if self.config.enable_tools`:
\* the configuration of a ChatRequest is that of the executor's own `config`
RequestConfig(config, shared) == config

\* run_turn builds a ChatRequest, once per iteration of run_sse_interaction
TurnRequest(p) ==
  /\ apc[p] = "run_turn"
  /\ Len(reqCfg[p]) < MaxReqs
  /\ reqCfg' = [reqCfg EXCEPT
                  ![p] = Append(@, RequestConfig(cfgSnap[p], turn_config))]
  /\ UNCHANGED <<status, watch, turn_config, apc, cfgSnap, reqFrom, req,
                 turnFrom, disturbed, turnRet>>
  /\ UNCHANGED agentFrame

\* process_turn returning Ok without the transition to Ready
TurnOkKeepsBusy(p) ==
  /\ apc[p] = "run_turn"
  /\ apc' = [apc EXCEPT ![p] = "idle"]
  /\ cfgSnap' = [cfgSnap EXCEPT ![p] = "none"]
  /\ reqCfg' = [reqCfg EXCEPT ![p] = <<>>]
  /\ turnFrom' = [turnFrom EXCEPT ![p] = "none"]
  /\ turnRet' = [turnRet EXCEPT ![p] = "Ok"]
  /\ disturbed' = [disturbed EXCEPT ![p] = FALSE]
  /\ UNCHANGED <<status, watch, turn_config, reqFrom, req>>
  /\ UNCHANGED agentFrame

\* process_turn(): run_turn returned Ok(r): transition(Ready); Ok(r)
TurnOk(p) ==
  /\ apc[p] = "run_turn"
  /\ transition(St("Ready"))
  /\ apc' = [apc EXCEPT ![p] = "idle"]
  /\ cfgSnap' = [cfgSnap EXCEPT ![p] = "none"]
  /\ reqCfg' = [reqCfg EXCEPT ![p] = <<>>]
  /\ turnFrom' = [turnFrom EXCEPT ![p] = "none"]
  /\ turnRet' = [turnRet EXCEPT ![p] = "Ok"]
  /\ Disturb(p)
  /\ UNCHANGED turn_config
  /\ UNCHANGED agentFrame

\* process_turn(): run_turn returned Err(e): transition(Error(e.to_string()))
TurnErr(p) ==
  /\ apc[p] = "run_turn"
  /\ \E m \in Msgs :
       /\ transition(ErrorSt(m))
       /\ turnRet' = [turnRet EXCEPT ![p] = m]
  /\ apc' = [apc EXCEPT ![p] = "idle"]
  /\ cfgSnap' = [cfgSnap EXCEPT ![p] = "none"]
  /\ reqCfg' = [reqCfg EXCEPT ![p] = <<>>]
  /\ turnFrom' = [turnFrom EXCEPT ![p] = "none"]
  /\ Disturb(p)
  /\ UNCHANGED turn_config
  /\ UNCHANGED agentFrame

\* the process_turn future is dropped at one of its await points (cokra.rs
\* run_turn_with_interrupt drops it on Interrupt and Shutdown)
TurnDropped(p) ==
  /\ apc[p] \in {"turn_config", "run_turn"}
  /\ apc' = [apc EXCEPT ![p] = "idle"]
  /\ cfgSnap' = [cfgSnap EXCEPT ![p] = "none"]
  /\ reqCfg' = [reqCfg EXCEPT ![p] = <<>>]
  /\ turnFrom' = [turnFrom EXCEPT ![p] = "none"]
  /\ turnRet' = [turnRet EXCEPT ![p] = "dropped"]
  /\ disturbed' = [disturbed EXCEPT ![p] = FALSE]
  /\ UNCHANGED <<status, watch, turn_config, reqFrom, req>>
  /\ UNCHANGED agentFrame

\* stop(): `self.transition(AgentStatus::Shutdown).await; Ok(())`
Stop(p) ==
  /\ apc[p] = "idle"
  /\ transition(St("Shutdown"))
  /\ Disturb(p)
  /\ UNCHANGED <<turn_config, apc, cfgSnap, turnFrom, turnRet>>
  /\ UNCHANGED <<reqCfg, agentFrame>>

\* set_turn_config(config): `*self.turn_config.write().await = config`
SetTurnConfig(p) ==
  /\ apc[p] = "idle"
  /\ \E c \in Configs : turn_config' = c
  /\ UNCHANGED <<status, watch, apc, cfgSnap, reqFrom, req, turnFrom, disturbed,
                 turnRet>>
  /\ UNCHANGED <<reqCfg, agentFrame>>

(***************************************************************************)
(* The turn executor (turn/executor.rs, turn/sse_executor.rs), driven by   *)
(* AgentControl::process_turn, and the model provider and tool handlers it *)
(* talks to.                                                               *)
(***************************************************************************)

\* sse_executor.rs:55
MAX_ITERATIONS == 10

\* no tool-call id (an empty String)
Empty == 0

\* the provider of the specifications without turns
NoProvider == [rounds |-> 0, deltas |-> 0, multi |-> 0, odd |-> 0]

\* ApprovalMode (cokra_config)
ApprovalModes == {"Auto", "Ask", "Never"}

\* `self.session.get_history(100)` (executor.rs:160)
HISTORY_LIMIT == 100

\* the messages a stream error may carry (ResponseEvent::Error{message})
StreamMsgs == {<<"boom">>, <<"bang">>}

\* the contents a tool handler may return
Outputs == {"hello from tool", "other output"}

\* an id a handler may return that is the id of no call
ForeignId == MaxCalls + 1

\* no error, no Error event
NoDetail == [message |-> <<>>, user_facing |-> <<>>]

\* Session::get_history(n): the last n messages of the history
get_history(n) ==
  IF Len(history) <= n
    THEN history
    ELSE SubSeq(history, Len(history) - n + 1, Len(history))

\* TurnError::to_string (thiserror Display): "Model error: {0}" around
\* ModelError's "Streaming error: {0}", "Tool error: {0}", "Tool not found:
\* {0}", "Session error: {0}"; a text is a sequence of pieces
to_string(e, message) ==
  CASE e = "StreamError" -> <<"Model error: ", "Streaming error: ">> \o message
    [] e = "ModelError" -> <<"Model error: ">> \o message
    [] e = "ToolError" -> <<"Tool error: ">> \o message
    [] e = "ToolNotFound" -> <<"Tool not found: ">> \o message
    [] OTHER -> <<"Session error: ">> \o message

\* the Cokra runtimes one process may hold
Runtimes == {"A", "B"}

\* the wire layer before any input
WireIdle ==
  /\ usage = [k \in {"OpenAI", "Anthropic"} |-> {}]
  /\ retrieved = <<>>
  /\ raw_id = <<>>
  /\ format = "none"
  /\ normalized = <<>>
  /\ call_ids = <<>>
  /\ blocks = <<>>
  /\ alive = {}
  /\ SPAWN_RUNTIME = "None"
  /\ registry = [r \in Runtimes |-> 0]
  /\ tool_result = [turn_of |-> "None", reached |-> "None"]
  /\ body = <<>>
  /\ sse_buffer = <<>>
  /\ yielded = <<>>
  /\ spc = "read"

\* no tool call is being validated and no chunk stream is being projected
ToolsIdle ==
  /\ tool_name = "none"
  /\ value = [kind |-> "number", s |-> <<>>, keys |-> <<>>, items |-> <<>>]
  /\ nest = 0
  /\ args = [kind |-> "object", s |-> <<>>, keys |-> <<>>, items |-> <<>>]
  /\ verdict = "none"
  /\ source = <<>>
  /\ out = <<>>
  /\ text_index = 0
  /\ buffer = <<>>
  /\ active_call_id = Empty
  /\ emitted_end_turn = FALSE
  /\ ppc = "done"
  /\ WireIdle

\* state of the runtime after Cokra::spawn_with_model_client: channels empty
\* but for the SessionConfigured event, no turn, empty session history
ExecInit ==
  /\ epc = "idle"
  /\ iter = 0
  /\ assistant_delta = FALSE
  /\ function_calls = <<>>
  /\ history = <<>>
  /\ raw = <<>>
  /\ client = <<[kind |-> "SessionConfigured", turn |-> 0, src |-> "loop"]>>
  /\ result = "none"
  /\ modelCalls = 0
  /\ turnNo = 0
  /\ rx_sub = <<>>
  /\ queue = <<>>
  /\ lpc = "recv"
  /\ processed = <<>>
  /\ nextSub = 1
  /\ messages = <<>>
  /\ request = <<>>
  /\ outputs = <<>>
  /\ detail = NoDetail

\* TurnExecutor::send_event / SseTurnExecutor::send_event: tx_event.send(event)
\* on the raw event channel
send_event(kind) ==
  raw' = Append(raw, [kind |-> kind, turn |-> turnNo, src |-> "exec"])

\* process_turn(): transition(Busy), whose outcome is not looked at, the clone
\* of the TurnConfig and TurnExecutor::new
ProcessTurn ==
  /\ epc = "created"
  /\ transition(St("Busy"))
  /\ epc' = "start"
  /\ UNCHANGED <<iter, assistant_delta, function_calls, history, raw, result,
                 modelCalls, provider, reqVars>>
  /\ UNCHANGED <<turnNo, loopVars, turn_config, callerVars, spawnVars, toolVars>>

\* run_turn(): TurnStarted is sent; build_messages: no system prompt
\* (TurnConfig.system_prompt is None), the last 100 messages of the history,
\* then the new user message (the input of turn n is written n)
TurnStart ==
  /\ epc = "start"
  /\ send_event("TurnStarted")
  /\ epc' = "loop"
  /\ iter' = 0
  /\ assistant_delta' = FALSE
  /\ function_calls' = <<>>
  /\ messages' = Append(get_history(HISTORY_LIMIT),
                        [role |-> "User", content |-> turnNo])
  /\ UNCHANGED <<history, result, modelCalls, provider, request, outputs, detail>>
  /\ UNCHANGED <<turnNo, loopVars, agentVars, spawnVars, toolVars>>

\* the loop test with one iteration too many
LoopContinuesOneMore(i) == i <= MAX_ITERATIONS

\* `for _ in 0..max_iterations`
LoopContinues(i) == i < MAX_ITERATIONS

\* head of the loop of run_sse_interaction: ItemStarted is sent for the next
\* iteration; after max_iterations iterations the loop is left with
\* Err(SessionError("too many tool call iterations"))
ItemStart ==
  /\ epc = "loop"
  /\ IF LoopContinues(iter)
       THEN /\ iter' = iter + 1
            /\ send_event("ItemStarted")
            /\ epc' = "request"
            /\ UNCHANGED <<result, detail>>
       ELSE /\ epc' = "failed"
            /\ result' = "too many tool call iterations"
            /\ detail' = [detail EXCEPT !.message = <<result'>>]
            /\ UNCHANGED <<iter, raw>>
  /\ UNCHANGED <<assistant_delta, function_calls, history, modelCalls, provider,
                 messages, request, outputs>>
  /\ UNCHANGED <<turnNo, loopVars, agentVars, spawnVars, toolVars>>

\* the ChatRequest is built with `messages: messages.clone()`, and
\* `self.model_client.responses_stream(request).await?`: one model call, which
\* returns a stream or fails
OpenStream ==
  /\ epc = "request"
  /\ request' = messages
  /\ modelCalls' = modelCalls + 1
  /\ assistant_delta' = FALSE
  /\ function_calls' = <<>>
  /\ \/ epc' = "stream" /\ UNCHANGED <<result, detail>>
     \/ /\ epc' = "failed"
        /\ result' = "ModelError"
        /\ detail' = [detail EXCEPT !.message = <<"request failed">>]
  /\ UNCHANGED <<iter, history, raw, provider, messages, outputs>>
  /\ UNCHANGED <<turnNo, loopVars, agentVars, spawnVars, toolVars>>

\* the number of function calls the stream of this iteration may still carry
CallsAllowed ==
  IF provider.rounds = 0 THEN 0 ELSE IF provider.multi = 0 THEN 1 ELSE MaxCalls

\* `while let Some(event) = stream.next().await`: a content delta, a function
\* call, the end of the stream (EndTurn or None), or an error
StreamNext ==
  /\ epc = "stream"
  /\ \/ /\ provider.deltas > 0
        /\ assistant_delta' = TRUE
        /\ send_event("ContentDelta")
        /\ provider' = [provider EXCEPT !.deltas = @ - 1]
        /\ UNCHANGED <<epc, function_calls, result, detail>>
     \/ /\ Len(function_calls) < CallsAllowed
        /\ function_calls' = Append(function_calls, Len(function_calls) + 1)
        /\ UNCHANGED <<epc, assistant_delta, raw, result, provider, detail>>
     \/ /\ epc' = "append"
        /\ provider' =
             [provider EXCEPT
                !.rounds = IF function_calls = <<>> THEN @ ELSE @ - 1,
                !.multi = IF Len(function_calls) > 1 THEN @ - 1 ELSE @]
        /\ UNCHANGED <<assistant_delta, function_calls, raw, result, detail>>
     \/ /\ epc' = "failed"
        /\ result' = "StreamError"
        /\ \E m \in StreamMsgs : detail' = [detail EXCEPT !.message = m]
        /\ UNCHANGED <<assistant_delta, function_calls, raw, provider>>
  /\ UNCHANGED <<iter, history, modelCalls, messages, request, outputs>>
  /\ UNCHANGED <<turnNo, loopVars, agentVars, spawnVars, toolVars>>

\* the Assistant message of the iteration, with the buffered function calls
\* as tool_calls, is pushed to `messages` and to the session history
\* (session.append_message)
AppendAssistant ==
  /\ epc = "append"
  /\ LET assistant_message == [role |-> "Assistant", content |-> assistant_delta,
                               tool_calls |-> function_calls]
     IN /\ messages' = Append(messages, assistant_message)
        /\ history' = Append(history, assistant_message)
  /\ epc' = IF function_calls = <<>> THEN "finish" ELSE "tools"
  /\ outputs' = <<>>
  /\ UNCHANGED <<iter, assistant_delta, function_calls, raw, result, modelCalls,
                 provider, request, detail>>
  /\ UNCHANGED <<turnNo, loopVars, agentVars, spawnVars, toolVars>>

\* `if function_calls.is_empty()`: ItemCompleted is sent and
\* run_sse_interaction returns Ok(TurnResult)
FinishItem ==
  /\ epc = "finish"
  /\ send_event("ItemCompleted")
  /\ epc' = "ok"
  /\ result' = "Ok"
  /\ UNCHANGED <<iter, assistant_delta, function_calls, history, modelCalls,
                 provider, reqVars>>
  /\ UNCHANGED <<turnNo, loopVars, agentVars, spawnVars, toolVars>>

\* the id of the call, whatever the handler returned
OutputCallIdOfCall(handler_id, call_id) == call_id

\* `if output.id.is_empty() { output.id = call.id.clone() }` and
\* `let output_call_id = if output.id.is_empty() { call.id } else { output.id }`
OutputCallId(handler_id, call_id) ==
  IF handler_id = Empty THEN call_id ELSE handler_id

\* the ToolOutputs a handler may return for a call: the id is empty, the id
\* of the call, or another id; the provider record bounds how often a handler
\* returns another id or another content than the usual one
HandlerOutputs(call) ==
  [id : {Empty, call} \cup (IF provider.odd > 0 THEN {ForeignId} ELSE {}),
   content : IF provider.odd > 0 THEN Outputs ELSE {"hello from tool"}]

\* `for call in function_calls`: execute_tool_call for the next call; the
\* handler is missing (ToolNotFound), fails (ToolError), or returns an output,
\* whose Tool message is pushed to `messages` and to the session history; the
\* handler is invoked whatever the approval policy is
ToolCall ==
  /\ epc = "tools"
  /\ function_calls # <<>>
  /\ LET call == Head(function_calls) IN
       \/ /\ epc' = "failed"
          /\ \E e \in {"ToolNotFound", "ToolError"} :
               /\ result' = e
               /\ detail' = [detail EXCEPT !.message = <<"tool failed">>]
          /\ UNCHANGED <<function_calls, history, messages, outputs, provider>>
       \/ /\ \E output \in HandlerOutputs(call) :
               LET tool_msg == [role |-> "Tool",
                                tool_call_id |-> OutputCallId(output.id, call),
                                content |-> output.content]
               IN /\ messages' = Append(messages, tool_msg)
                  /\ history' = Append(history, tool_msg)
                  /\ outputs' = Append(outputs,
                       [call |-> call, id |-> output.id,
                        content |-> output.content])
                  /\ provider' =
                       [provider EXCEPT
                          !.odd = IF output.id = ForeignId
                                     \/ output.content # "hello from tool"
                                    THEN @ - 1 ELSE @]
          /\ function_calls' = Tail(function_calls)
          /\ UNCHANGED <<epc, result, detail>>
  /\ UNCHANGED <<iter, assistant_delta, raw, modelCalls, request>>
  /\ UNCHANGED <<turnNo, loopVars, agentVars, spawnVars, toolVars>>

\* after the last call of the iteration: ItemCompleted is sent and the loop
\* goes on
ItemDone ==
  /\ epc = "tools"
  /\ function_calls = <<>>
  /\ send_event("ItemCompleted")
  /\ epc' = "loop"
  /\ UNCHANGED <<iter, assistant_delta, function_calls, history, result,
                 modelCalls, provider, reqVars>>
  /\ UNCHANGED <<turnNo, loopVars, agentVars, spawnVars, toolVars>>

\* run_turn() after run_sse_interaction: Err(e) => the Error event is sent and
\* Err(e) returned; Ok(output) => TurnComplete is sent and Ok(output) returned
RunTurnEnd ==
  /\ epc \in {"ok", "failed"}
  /\ IF epc = "ok"
       THEN send_event("TurnComplete") /\ epc' = "done" /\ UNCHANGED detail
       ELSE /\ send_event("Error")
            /\ detail' = [detail EXCEPT
                            !.user_facing = to_string(result, detail.message)]
            /\ epc' = "err"
  /\ UNCHANGED <<iter, assistant_delta, function_calls, history, result,
                 modelCalls, provider, messages, request, outputs>>
  /\ UNCHANGED <<turnNo, loopVars, agentVars, spawnVars, toolVars>>

\* process_turn() after run_turn: transition(Ready) on Ok, and
\* transition(Error(e.to_string())) on Err
ProcessTurnReturn ==
  /\ epc \in {"done", "err"}
  /\ transition(IF epc = "done" THEN St("Ready") ELSE ErrorSt(result))
  /\ epc' = "returned"
  /\ UNCHANGED <<iter, assistant_delta, function_calls, history, raw, result,
                 modelCalls, provider, reqVars>>
  /\ UNCHANGED <<turnNo, loopVars, turn_config, callerVars, spawnVars, toolVars>>

\* the future of process_turn is not polled to its end
TurnRuns == epc \notin {"idle", "returned"}

\* a caller that makes at most n calls takes the result of its last
\* process_turn, if any, receives the events left on the raw channel (as the
\* tests of the executors do with try_recv), and creates the future of the
\* next process_turn
NewTurn(n) ==
  /\ epc \in {"idle", "returned"}
  /\ turnNo < n
  /\ turnNo' = turnNo + 1
  /\ epc' = "created"
  /\ result' = "none"
  /\ modelCalls' = 0
  /\ raw' = <<>>
  /\ messages' = <<>>
  /\ request' = <<>>
  /\ outputs' = <<>>
  /\ detail' = NoDetail
  /\ UNCHANGED <<iter, assistant_delta, function_calls, history, provider>>
  /\ UNCHANGED <<loopVars, agentVars, spawnVars, toolVars>>

\* the future of process_turn ceases to exist, and its locals with it
FutureGone ==
  /\ epc' = "idle"
  /\ iter' = 0
  /\ assistant_delta' = FALSE
  /\ function_calls' = <<>>
  /\ result' = "none"
  /\ modelCalls' = 0
  /\ messages' = <<>>
  /\ request' = <<>>
  /\ outputs' = <<>>
  /\ detail' = NoDetail

\* the future of process_turn is dropped at one of its await points
DropTurn ==
  /\ TurnRuns
  /\ FutureGone
  /\ UNCHANGED <<history, raw, provider>>
  /\ UNCHANGED <<turnNo, loopVars, agentVars, spawnVars, toolVars>>

(***************************************************************************)
(* The submission loop and the event forwarder (cokra.rs)                  *)
(***************************************************************************)

\* the operations a client submits: a user input with text, a user input
\* without text, Interrupt, Shutdown, and an operation the loop does not know
Ops == {"UserInput", "Blank", "Interrupt", "Shutdown", "Other"}

\* the event the loop emits for a submission it handles outside a turn
Reply(op) ==
  CASE op = "Blank" -> "Warning"
    [] op = "Other" -> "Warning"
    [] op = "Interrupt" -> "TurnAborted:no active turn"
    [] op = "Shutdown" -> "ShutdownComplete"

\* emit_event(tx_event, event_bus, msg) called by the submission loop
emit_event(kind) ==
  client' = Append(client, [kind |-> kind, turn |-> turnNo, src |-> "loop"])

\* `queue.push_front(next_sub)`
PushFront(q, s) == <<s>> \o q

\* `queue.push_back(next_sub)`
push_back(q, s) == Append(q, s)

\* Cokra::submit: tx_sub.send(sub), which fails once the loop has dropped the
\* receiver
Submit ==
  /\ lpc # "exited"
  /\ nextSub <= MaxSubs
  /\ \E op \in Ops : rx_sub' = Append(rx_sub, [id |-> nextSub, op |-> op])
  /\ nextSub' = nextSub + 1
  /\ UNCHANGED <<client, queue, lpc, processed>>
  /\ UNCHANGED <<turnNo, execVars, agentVars, spawnVars, toolVars>>

\* submission_loop: the next submission is taken from the FIFO, or else from
\* the channel, and handled; a user input with text creates the future of
\* process_turn and enters the select of run_turn_with_interrupt
LoopNext ==
  /\ lpc = "recv"
  /\ queue # <<>> \/ rx_sub # <<>>
  /\ LET fromQueue == queue # <<>>
         sub == IF fromQueue THEN Head(queue) ELSE Head(rx_sub)
     IN /\ queue' = IF fromQueue THEN Tail(queue) ELSE queue
        /\ rx_sub' = IF fromQueue THEN rx_sub ELSE Tail(rx_sub)
        /\ processed' = Append(processed,
             [id |-> sub.id, op |-> sub.op,
              from |-> IF fromQueue THEN "queue" ELSE "channel"])
        /\ IF sub.op = "UserInput"
             THEN /\ turnNo' = turnNo + 1
                  /\ epc' = "created"
                  /\ result' = "none"
                  /\ modelCalls' = 0
                  /\ lpc' = "select"
                  /\ UNCHANGED client
             ELSE /\ emit_event(Reply(sub.op))
                  /\ lpc' = IF sub.op = "Shutdown" THEN "exited" ELSE "recv"
                  /\ UNCHANGED <<turnNo, epc, result, modelCalls>>
  /\ UNCHANGED nextSub
  /\ UNCHANGED <<iter, assistant_delta, function_calls, history, raw, provider,
                 reqVars>>
  /\ UNCHANGED <<agentVars, spawnVars, toolVars>>

\* run_turn_with_interrupt, branch `res = &mut fut`: the turn has returned;
\* for Err the loop emits an Error event; back to the submission loop
SelectDone ==
  /\ lpc = "select"
  /\ epc = "returned"
  /\ IF result = "Ok" THEN UNCHANGED client ELSE emit_event("Error")
  /\ lpc' = "recv"
  /\ FutureGone
  /\ UNCHANGED <<rx_sub, queue, processed, nextSub>>
  /\ UNCHANGED <<history, raw, provider>>
  /\ UNCHANGED <<turnNo, agentVars, spawnVars, toolVars>>

\* run_turn_with_interrupt, branch `maybe_sub = rx_sub.recv()`: Interrupt and
\* Shutdown emit their event and break, which drops the turn future and
\* returns to the submission loop; any other submission is pushed to the FIFO
SelectRecv ==
  /\ lpc = "select"
  /\ epc # "returned"
  /\ rx_sub # <<>>
  /\ LET next_sub == Head(rx_sub) IN
       /\ rx_sub' = Tail(rx_sub)
       /\ IF next_sub.op \in {"Interrupt", "Shutdown"}
            THEN /\ emit_event(IF next_sub.op = "Interrupt"
                                 THEN "TurnAborted:interrupted"
                                 ELSE "ShutdownComplete")
                 /\ processed' = Append(processed,
                      [id |-> next_sub.id, op |-> next_sub.op, from |-> "select"])
                 /\ lpc' = "recv"
                 /\ FutureGone
                 /\ UNCHANGED queue
            ELSE /\ queue' = push_back(queue, next_sub)
                 /\ UNCHANGED <<client, processed, lpc, epc, iter,
                                assistant_delta, function_calls, result,
                                modelCalls, reqVars>>
  /\ UNCHANGED nextSub
  /\ UNCHANGED <<history, raw, provider>>
  /\ UNCHANGED <<turnNo, agentVars, spawnVars, toolVars>>

\* forward_internal_events: the forwarder task moves the next raw event to the
\* client event channel
Forward ==
  /\ raw # <<>>
  /\ client' = Append(client, Head(raw))
  /\ raw' = Tail(raw)
  /\ UNCHANGED <<rx_sub, queue, lpc, processed, nextSub>>
  /\ UNCHANGED <<epc, iter, assistant_delta, function_calls, history, result,
                 modelCalls, provider, reqVars>>
  /\ UNCHANGED <<turnNo, agentVars, spawnVars, toolVars>>

(***************************************************************************)
(* The tool validator (tools/validation.rs). A string is a sequence of     *)
(* characters; the characters of a denylisted command ("mkfs") occur only  *)
(* together and are written as one character. A JSON value is a record     *)
(* with its kind, the characters `s` of a string, and the items of an      *)
(* array or the keys and items of an object.                               *)
(***************************************************************************)

\* the strings of at most MaxStr characters
Strs == UNION {[1..n -> {".", "/", "\\", "mkfs"}] : n \in 0..MaxStr}

\* str::contains(pattern)
contains(s, pattern) ==
  \E i \in 1..(Len(s) - Len(pattern) + 1) :
    SubSeq(s, i, i + Len(pattern) - 1) = pattern

\* a check that looks at the strings of the outermost arrays and objects only
HasPathTraversalShallow(v) ==
  \/ v.kind = "string"
       /\ (contains(v.s, <<".", ".", "/">>) \/ contains(v.s, <<".", ".", "\\">>))
  \/ \E i \in DOMAIN v.items :
       /\ v.items[i].kind = "string"
       /\ \/ contains(v.items[i].s, <<".", ".", "/">>)
          \/ contains(v.items[i].s, <<".", ".", "\\">>)

\* has_path_traversal(value)
RECURSIVE has_path_traversal(_)
has_path_traversal(v) ==
  CASE v.kind = "string" ->
         contains(v.s, <<".", ".", "/">>) \/ contains(v.s, <<".", ".", "\\">>)
    [] v.kind \in {"array", "object"} ->
         \E i \in DOMAIN v.items : has_path_traversal(v.items[i])
    [] OTHER -> FALSE

\* ToolValidator::validate_tool_call(call), with validate_shell_command,
\* contains_dangerous_patterns and ApprovalPolicy::check_tool_use; the result
\* is the ValidationError, or "Approved" for Ok(valid: true) and
\* "RequiresUserInput" for Ok(valid: false)
validate_tool_call(name, a) ==
  LET hasCommand == \E i \in DOMAIN a.keys :
                      a.keys[i] = <<"command">> /\ a.items[i].kind = "string"
      cmd == a.items[CHOOSE i \in DOMAIN a.keys : a.keys[i] = <<"command">>].s
      contains_dangerous_patterns(c) == contains(c, <<"mkfs">>)
      check_tool_use ==
        CASE approval_policy = "Auto" -> "Approved"
          [] approval_policy = "Ask" -> "RequiresUserInput"
          [] approval_policy = "Never" -> "PermissionDenied"
  IN IF has_path_traversal(a) THEN "PathTraversal"
     ELSE IF name = "shell" /\ ~hasCommand THEN "InvalidArguments"
     ELSE IF name = "shell" /\ contains_dangerous_patterns(cmd)
       THEN "DangerousCommand"
     ELSE check_tool_use

\* the value is put into an array or into an object, under a harmless key or a
\* key that reads "../"
Wrap ==
  /\ verdict = "none"
  /\ nest < MaxNest
  /\ nest' = nest + 1
  /\ \/ value' = [kind |-> "array", s |-> <<>>, keys |-> <<>>,
                   items |-> <<[kind |-> "number", s |-> <<>>, keys |-> <<>>,
                               items |-> <<>>], value>>]
     \/ \E k \in {<<"k">>, <<".", ".", "/">>} :
          value' = [kind |-> "object", s |-> <<>>, keys |-> <<k>>,
                    items |-> <<value>>]
  /\ UNCHANGED <<tool_name, args, verdict, approval_policy, projVars, wireVars>>
  /\ UNCHANGED <<spawnVars, agentVars, turnVars>>

\* validate_tool_call for a call of the tool with the value as its argument
\* "command" or as another argument
Validate ==
  /\ verdict = "none"
  /\ \E k \in {<<"command">>, <<"arg">>} :
       /\ args' = [kind |-> "object", s |-> <<>>, keys |-> <<k>>,
                   items |-> <<value>>]
       /\ verdict' = validate_tool_call(tool_name, args')
  /\ UNCHANGED <<tool_name, value, nest, approval_policy, projVars, wireVars>>
  /\ UNCHANGED <<spawnVars, agentVars, turnVars>>

(***************************************************************************)
(* The stream projector chunk_stream_to_response_events (model/provider.rs).*)
(* A text is a sequence of characters. Call ids are numbers, ordered as    *)
(* the BTreeMap orders its keys; an id the projector makes up             *)
(* ("tool_call_n") is written NumCallIds + n. The arguments of a call are  *)
(* left out.                                                               *)
(***************************************************************************)

\* the chunks a provider stream may yield: Content with a text, ToolCall with
\* an optional id and an optional name, MessageStop, a chunk the projector
\* skips (MessageStart, MessageDelta, Unknown), and an error
Chunks ==
  [kind : {"Content"}, text : {<<>>, <<"a">>, <<"b">>}, id : {Empty},
   name : {""}]
    \cup [kind : {"ToolCall"}, text : {<<>>}, id : {Empty} \cup 1..NumCallIds,
          name : {"", "f"}]
    \cup [kind : {"MessageStop", "Other", "Err"}, text : {<<>>}, id : {Empty},
          name : {""}]

\* a text that counts as empty whatever it holds
IsEmptyNever(text) == FALSE

\* `delta.text.is_empty()`
is_empty(text) == text = <<>>

\* `for call in function_calls.values()`: the FunctionCall events of the
\* buffered calls with a name, in the order of the keys of the BTreeMap
FlushCalls(buf, at) ==
  LET ids == DOMAIN buf
      order == CHOOSE q \in [1..Cardinality(ids) -> ids] :
                 \A i, j \in 1..Cardinality(ids) : i < j => q[i] < q[j]
      calls == [i \in 1..Cardinality(ids) |->
                  [kind |-> "FunctionCall", text |-> <<>>, index |-> 0,
                   id |-> order[i], name |-> buf[order[i]].name,
                   first |-> buf[order[i]].first, at |-> at]]
  IN SelectSeq(calls, LAMBDA c : c.name # "")

\* one turn of `while let Some(chunk) = chunk_stream.next().await`
ProjectChunk ==
  /\ ppc = "run"
  /\ Len(source) < MaxChunks
  /\ \E chunk \in Chunks :
       LET at == Len(source) + 1
           end_turn == [kind |-> "EndTurn", text |-> <<>>, index |-> 0,
                        id |-> Empty, name |-> "", first |-> 0, at |-> at]
       IN /\ source' = Append(source, chunk)
          /\ CASE chunk.kind = "Err" ->
                    /\ out' = Append(out, [end_turn EXCEPT !.kind = "Err"])
                    /\ ppc' = "done"
                    /\ UNCHANGED <<text_index, buffer, active_call_id,
                                   emitted_end_turn>>
               [] chunk.kind = "Content" ->
                    /\ IF is_empty(chunk.text)
                         THEN UNCHANGED <<out, text_index>>
                         ELSE /\ out' = Append(out,
                                   [end_turn EXCEPT !.kind = "ContentDelta",
                                                    !.text = chunk.text,
                                                    !.index = text_index])
                              /\ text_index' = text_index + 1
                    /\ UNCHANGED <<buffer, active_call_id, emitted_end_turn, ppc>>
               [] chunk.kind = "ToolCall" ->
                    LET call_id ==
                          IF chunk.id # Empty THEN chunk.id
                          ELSE IF active_call_id # Empty THEN active_call_id
                          ELSE NumCallIds + Cardinality(DOMAIN buffer) + 1
                        entry == IF call_id \in DOMAIN buffer
                                   THEN buffer[call_id]
                                   ELSE [name |-> "", first |-> at]
                    IN /\ active_call_id' = call_id
                       /\ buffer' =
                            [i \in DOMAIN buffer \cup {call_id} |->
                               IF i # call_id THEN buffer[i]
                               ELSE IF chunk.name # ""
                                 THEN [entry EXCEPT !.name = chunk.name]
                                 ELSE entry]
                       /\ UNCHANGED <<out, text_index, emitted_end_turn, ppc>>
               [] chunk.kind = "MessageStop" ->
                    /\ out' = out \o FlushCalls(buffer, at) \o <<end_turn>>
                    /\ buffer' = <<>>
                    /\ active_call_id' = Empty
                    /\ emitted_end_turn' = TRUE
                    /\ UNCHANGED <<text_index, ppc>>
               [] OTHER ->
                    UNCHANGED <<out, text_index, buffer, active_call_id,
                                emitted_end_turn, ppc>>
  /\ UNCHANGED <<approval_policy, validateVars, wireVars>>
  /\ UNCHANGED <<spawnVars, agentVars, turnVars>>

\* the chunk stream has ended: the calls left in the buffer are flushed, and
\* EndTurn is yielded unless one was yielded before
ProjectEnd ==
  /\ ppc = "run"
  /\ out' = out \o FlushCalls(buffer, Len(source))
               \o (IF emitted_end_turn THEN <<>>
                   ELSE <<[kind |-> "EndTurn", text |-> <<>>, index |-> 0,
                           id |-> Empty, name |-> "", first |-> 0,
                           at |-> Len(source)]>>)
  /\ ppc' = "done"
  /\ UNCHANGED <<source, text_index, buffer, active_call_id, emitted_end_turn>>
  /\ UNCHANGED <<approval_policy, validateVars, wireVars>>
  /\ UNCHANGED <<spawnVars, agentVars, turnVars>>

(***************************************************************************)
(* The usage parsers (model/streaming.rs). An Option is written as a set   *)
(* of at most one element, a JSON usage object as a function from some of  *)
(* the keys input, output, total to numbers (prompt_tokens, input_tokens   *)
(* and promptTokenCount are one key, likewise the other two).              *)
(***************************************************************************)

\* the arguments of parse(chunk): a chunk with no "data: " line, with [DONE]
\* or with data that is not JSON, and the chunks whose data is a JSON object
\* with or without "usage" and "message"."usage"
UsageChunks ==
  LET objects == UNION {[d -> 0..MaxTok] :
                          d \in SUBSET {"input", "output", "total"}}
      opt == {{}} \cup {{u} : u \in objects}
  IN {[data |-> FALSE, top |-> {}, message |-> {}]}
       \cup [data : {TRUE}, top : opt, message : opt]

\* parse_usage(value): a missing count is 0, a missing total is the sum of
\* the two counts, and a usage of three zeros is None
parse_usage(v) ==
  LET input_tokens == IF "input" \in DOMAIN v THEN v["input"] ELSE 0
      output_tokens == IF "output" \in DOMAIN v THEN v["output"] ELSE 0
      total_tokens == IF "total" \in DOMAIN v THEN v["total"]
                      ELSE input_tokens + output_tokens
  IN IF input_tokens = 0 /\ output_tokens = 0 /\ total_tokens = 0
       THEN {}
       ELSE {[input_tokens |-> input_tokens, output_tokens |-> output_tokens,
              total_tokens |-> total_tokens]}

\* UsageParser::parse(chunk) of both parsers on the same chunk, followed by
\* retrieve() as parse_event does
Parse ==
  /\ Len(retrieved) < MaxParses
  /\ \E chunk \in UsageChunks :
       LET top == UNION {parse_usage(v) : v \in chunk.top}
           message == UNION {parse_usage(v) : v \in chunk.message}
       IN usage' =
            [k \in DOMAIN usage |->
               IF ~chunk.data THEN usage[k]
               ELSE IF top # {} THEN top
               ELSE IF k = "Anthropic" /\ message # {} THEN message
               ELSE usage[k]]
  /\ retrieved' = Append(retrieved, usage')
  /\ UNCHANGED <<approval_policy, validateVars, projVars, normVars, slotVars,
                 sseVars>>
  /\ UNCHANGED <<spawnVars, agentVars, turnVars>>

(***************************************************************************)
(* Tool-call-id normalization (model/transform.rs). An id is a sequence of *)
(* characters: "a" is ASCII alphanumeric, "-" is kept by Sanitize only,    *)
(* "*" is neither; "_" and "0" are the characters the code writes.         *)
(***************************************************************************)

\* the length Alphanumeric9 pads and truncates to
ID_LEN == 9

ToolCallIdFormats == {"Default", "Sanitize", "Alphanumeric9"}

\* the ids of at most n characters taken from `chars`
CallIdStrings(chars, n) == UNION {[1..k -> chars] : k \in 0..n}

\* char::is_ascii_alphanumeric
is_ascii_alphanumeric(c) == c \in {"a", "0"}

\* `while normalized.len() < 9 { normalized.push('0') }`
RECURSIVE pad(_)
pad(s) == IF Len(s) < ID_LEN THEN pad(Append(s, "0")) ELSE s

\* an Alphanumeric9 that does not truncate
NormalizeNoTake(id, fmt) ==
  CASE fmt = "Default" -> id
    [] fmt = "Sanitize" ->
         [i \in 1..Len(id) |->
            IF is_ascii_alphanumeric(id[i]) \/ id[i] = "_" \/ id[i] = "-"
              THEN id[i] ELSE "_"]
    [] fmt = "Alphanumeric9" -> pad(SelectSeq(id, is_ascii_alphanumeric))

\* normalize_tool_call_id(id, format)
normalize_tool_call_id(id, fmt) ==
  CASE fmt = "Default" -> id
    [] fmt = "Sanitize" ->
         [i \in 1..Len(id) |->
            IF is_ascii_alphanumeric(id[i]) \/ id[i] = "_" \/ id[i] = "-"
              THEN id[i] ELSE "_"]
    [] fmt = "Alphanumeric9" ->
         LET filtered == SelectSeq(id, is_ascii_alphanumeric)
             taken == SubSeq(filtered, 1,
                             IF Len(filtered) < ID_LEN THEN Len(filtered)
                             ELSE ID_LEN)
         IN pad(taken)

\* a call of normalize_tool_call_id, the first
Normalize ==
  /\ format = "none"
  /\ \E id \in CallIdStrings({"a", "-", "*"}, MaxIdLen) : \E fmt \in ToolCallIdFormats :
       /\ raw_id' = id
       /\ format' = fmt
       /\ normalized' = normalize_tool_call_id(id, fmt)
  /\ UNCHANGED <<call_ids, blocks>>
  /\ UNCHANGED <<approval_policy, validateVars, projVars, usageVars, slotVars,
                 sseVars>>
  /\ UNCHANGED <<spawnVars, agentVars, turnVars>>

\* AnthropicTransform::to_anthropic_message for an Assistant message with two
\* tool calls of different ids and for the Tool messages of their results,
\* under a format that rewrites ids
ToAnthropic ==
  /\ format = "none"
  /\ \E a, b \in CallIdStrings({"a", "-", "*", "_"}, MaxPairLen) :
     \E fmt \in {"Sanitize", "Alphanumeric9"} :
       /\ a # b
       /\ call_ids' = <<a, b>>
       /\ format' = fmt
       /\ blocks' =
            [i \in 1..4 |->
               IF i <= 2
                 THEN [type |-> "tool_use",
                       id |-> normalize_tool_call_id(call_ids'[i], fmt)]
                 ELSE [type |-> "tool_result",
                       id |-> normalize_tool_call_id(call_ids'[i - 2], fmt)]]
  /\ UNCHANGED <<raw_id, normalized>>
  /\ UNCHANGED <<approval_policy, validateVars, projVars, usageVars, slotVars,
                 sseVars>>
  /\ UNCHANGED <<spawnVars, agentVars, turnVars>>

(***************************************************************************)
(* The spawn_agent runtime slot (tools/handlers/spawn_agent.rs) of a       *)
(* process with the Cokra runtimes A and B.                                *)
(***************************************************************************)

\* Cokra::spawn_with_model_client: configure_spawn_agent_runtime(agent_control, ..)
CokraSpawn(r) ==
  /\ r \notin alive
  /\ alive' = alive \cup {r}
  /\ SPAWN_RUNTIME' = r
  /\ UNCHANGED <<registry, tool_result>>
  /\ UNCHANGED <<approval_policy, validateVars, projVars, usageVars, normVars,
                 sseVars>>
  /\ UNCHANGED <<spawnVars, agentVars, turnVars>>

\* Cokra::shutdown: clear_spawn_agent_runtime()
CokraShutdown(r) ==
  /\ r \in alive
  /\ alive' = alive \ {r}
  /\ SPAWN_RUNTIME' = "None"
  /\ UNCHANGED <<registry, tool_result>>
  /\ UNCHANGED <<approval_policy, validateVars, projVars, usageVars, normVars,
                 sseVars>>
  /\ UNCHANGED <<spawnVars, agentVars, turnVars>>

\* SpawnAgentHandler::handle during a turn of runtime r: the handler clones
\* the slot, fails when it is None, and calls spawn_agent on the AgentControl
\* it found there
SpawnAgentHandle(r) ==
  /\ r \in alive
  /\ IF SPAWN_RUNTIME = "None"
       THEN /\ tool_result' = [turn_of |-> r, reached |-> "not configured"]
            /\ UNCHANGED registry
       ELSE /\ registry[SPAWN_RUNTIME] < MaxThreadIds
            /\ registry' = [registry EXCEPT ![SPAWN_RUNTIME] = @ + 1]
            /\ tool_result' = [turn_of |-> r, reached |-> SPAWN_RUNTIME]
  /\ UNCHANGED <<alive, SPAWN_RUNTIME>>
  /\ UNCHANGED <<approval_policy, validateVars, projVars, usageVars, normVars,
                 sseVars>>
  /\ UNCHANGED <<spawnVars, agentVars, turnVars>>

(***************************************************************************)
(* The SSE reader (model/providers/mod.rs, model/streaming.rs). A body is  *)
(* a sequence of the characters "\r", "\n" and "x"; "x" is a piece of a    *)
(* data line: a line of k >= 1 pieces is a "data: " line whose JSON is a   *)
(* Content chunk, written k, and a line that starts with a piece and holds *)
(* a "\r" between pieces is a "data: " line whose payload is not JSON.     *)
(***************************************************************************)

\* str::replace("\r\n\r\n", "\n\n")
RECURSIVE replace(_)
replace(t) ==
  IF Len(t) >= 4 /\ SubSeq(t, 1, 4) = <<"\r", "\n", "\r", "\n">>
    THEN <<"\n", "\n">> \o replace(SubSeq(t, 5, Len(t)))
  ELSE IF t = <<>> THEN <<>>
  ELSE <<Head(t)>> \o replace(Tail(t))

\* `self.buffer.find(self.config.separator)` with separator "\n\n": the index
\* of the first separator, 0 when there is none
find(b) ==
  IF \E i \in 1..(Len(b) - 1) : b[i] = "\n" /\ b[i + 1] = "\n"
    THEN CHOOSE i \in 1..(Len(b) - 1) :
           /\ b[i] = "\n" /\ b[i + 1] = "\n"
           /\ \A j \in 1..(i - 1) : ~(b[j] = "\n" /\ b[j + 1] = "\n")
    ELSE 0

\* str::lines: the lines end at "\n" or "\r\n"; the last line needs no ending
RECURSIVE lines(_)
lines(raw_event) ==
  IF raw_event = <<>> THEN <<>>
  ELSE IF \E i \in 1..Len(raw_event) : raw_event[i] = "\n"
    THEN LET i == CHOOSE k \in 1..Len(raw_event) :
                    raw_event[k] = "\n" /\ \A j \in 1..(k - 1) : raw_event[j] # "\n"
             line == SubSeq(raw_event, 1, i - 1)
         IN <<IF line # <<>> /\ line[Len(line)] = "\r"
                THEN SubSeq(line, 1, Len(line) - 1) ELSE line>>
              \o lines(SubSeq(raw_event, i + 1, Len(raw_event)))
  ELSE <<raw_event>>

\* str::trim
RECURSIVE trim(_)
trim(s) ==
  IF s # <<>> /\ Head(s) = "\r" THEN trim(Tail(s))
  ELSE IF s # <<>> /\ s[Len(s)] = "\r" THEN trim(SubSeq(s, 1, Len(s) - 1))
  ELSE s

\* parse_event(raw_event): the chunk of the last "data: " line whose payload is
\* JSON, as a sequence of at most one chunk
parse_event(raw_event) ==
  LET data == SelectSeq(lines(raw_event),
                LAMBDA l : /\ l # <<>> /\ Head(l) = "x"
                           /\ \A i \in DOMAIN trim(l) : trim(l)[i] = "x")
  IN IF data = <<>> THEN <<>> ELSE <<Len(trim(data[Len(data)]))>>

\* StreamingProcessor::drain_events: the chunks of the events that end in the
\* buffer, and what is left of the buffer
RECURSIVE drain_events(_)
drain_events(b) ==
  IF find(b) = 0 THEN [chunks |-> <<>>, rest |-> b]
  ELSE LET next == drain_events(SubSeq(b, find(b) + 2, Len(b)))
       IN [chunks |-> parse_event(SubSeq(b, 1, find(b) - 1)) \o next.chunks,
           rest |-> next.rest]

\* StreamingProcessor::finish
finish(b) == IF b = <<>> THEN <<>> ELSE parse_event(b)

\* `Ok(bytes)`: one read of the body, a segment of any bytes
ReadBytes ==
  /\ spc = "read"
  /\ \E n \in 1..(MaxBody - Len(body)) : \E bytes \in [1..n -> {"\r", "\n", "x"}] :
       LET text == replace(bytes)
           drained == drain_events(sse_buffer \o text)
       IN /\ body' = body \o bytes
          /\ sse_buffer' = drained.rest
          /\ yielded' = yielded \o drained.chunks
  /\ UNCHANGED spc
  /\ UNCHANGED <<approval_policy, validateVars, projVars, usageVars, normVars,
                 slotVars>>
  /\ UNCHANGED <<spawnVars, agentVars, turnVars>>

\* the byte stream has ended: `for event in processor.finish()`
ReadEnd ==
  /\ spc = "read"
  /\ yielded' = yielded \o finish(sse_buffer)
  /\ sse_buffer' = <<>>
  /\ spc' = "done"
  /\ UNCHANGED body
  /\ UNCHANGED <<approval_policy, validateVars, projVars, usageVars, normVars,
                 slotVars>>
  /\ UNCHANGED <<spawnVars, agentVars, turnVars>>

(***************************************************************************)
(* Specification of one AgentControl whose spawn_agent and                 *)
(* shutdown_spawned_agent are called by concurrent callers.                *)
(***************************************************************************)
InitControl ==
  /\ GuardsInit
  /\ ProcInit
  /\ limit \in 0..MaxLimit
  /\ last = "none"
  /\ unbounded = FALSE
  /\ net = 0
  /\ dups = 0
  /\ ControlInit
  /\ AgentInit
  /\ turn_config = "c1"
  /\ ExecInit
  /\ provider = NoProvider
  /\ approval_policy = "Auto"
  /\ ToolsIdle

NextControl ==
  \E p \in Procs :
    \/ SpawnRejectTask(p)
    \/ SpawnRejectDepth(p)
    \/ SpawnReserveNone(p)
    \/ SpawnReserveSome(p)
    \/ SpawnLimit(p)
    \/ SpawnCasOk(p)
    \/ SpawnCasRetry(p)
    \/ SendBegin(p)
    \/ CancelAtBegin(p)
    \/ SpawnThread(p)
    \/ SpawnCommit(p)
    \/ NotifyCreated(p)
    \/ SendEnd(p)
    \/ CancelAtEnd(p)
    \/ ShutdownUnknown(p)
    \/ ShutdownRemove(p)
    \/ ShutdownReleaseRemove(p)
    \/ ShutdownReleaseFinish(p)

SpecControl == InitControl /\ [][NextControl]_vars

(***************************************************************************)
(* Specification of one AgentControl whose spawn_agent and                 *)
(* shutdown_spawned_agent are called by a single caller, one call after    *)
(* the other (a spawn_agent future may still be dropped at its awaits).    *)
(***************************************************************************)
Caller == CHOOSE p \in Procs : TRUE

NextSeq ==
  \/ SpawnRejectTask(Caller)
  \/ SpawnRejectDepth(Caller)
  \/ SpawnReserveNone(Caller)
  \/ SpawnReserveSome(Caller)
  \/ SpawnLimit(Caller)
  \/ SpawnCasOk(Caller)
  \/ SpawnCasRetry(Caller)
  \/ SendBegin(Caller)
  \/ CancelAtBegin(Caller)
  \/ SpawnThread(Caller)
  \/ SpawnCommit(Caller)
  \/ NotifyCreated(Caller)
  \/ SendEnd(Caller)
  \/ CancelAtEnd(Caller)
  \/ ShutdownUnknown(Caller)
  \/ ShutdownRemove(Caller)
  \/ ShutdownReleaseRemove(Caller)
  \/ ShutdownReleaseFinish(Caller)

SpecSeq == InitControl /\ [][NextSeq]_vars

(***************************************************************************)
(* Specification of one AgentControl whose start, process_turn, stop and   *)
(* set_turn_config are called by concurrent callers.                       *)
(***************************************************************************)
InitAgent ==
  /\ GuardsInit
  /\ ProcInit
  /\ limit = 0
  /\ last = "none"
  /\ unbounded = FALSE
  /\ net = 0
  /\ dups = 0
  /\ ControlInit
  /\ AgentInit
  /\ ExecInit
  /\ provider = NoProvider
  /\ approval_policy = "Auto"
  /\ ToolsIdle

NextAgent ==
  \E p \in Procs :
    \/ StartInitializing(p)
    \/ StartReady(p)
    \/ TurnBusy(p)
    \/ TurnReadConfig(p)
    \/ TurnOk(p)
    \/ TurnErr(p)
    \/ TurnDropped(p)
    \/ Stop(p)
    \/ SetTurnConfig(p)

SpecAgent == InitAgent /\ [][NextAgent]_vars

(***************************************************************************)
(* Specification of the turns of one AgentControl and the ChatRequests     *)
(* they build, with set_turn_config called by concurrent callers.          *)
(***************************************************************************)
NextConfig ==
  \E p \in Procs :
    \/ TurnBusy(p)
    \/ TurnReadConfig(p)
    \/ TurnRequest(p)
    \/ TurnOk(p)
    \/ TurnErr(p)
    \/ TurnDropped(p)
    \/ SetTurnConfig(p)

SpecConfig == InitAgent /\ [][NextConfig]_vars

(***************************************************************************)
(* Specification of Guards used directly by concurrent callers: every      *)
(* caller holds at most one reservation at a time.                         *)
(***************************************************************************)
Init ==
  /\ GuardsInit
  /\ ProcInit
  /\ limit \in 0..MaxLimit
  /\ last = "none"
  /\ unbounded = FALSE
  /\ net = 0
  /\ dups = 0
  /\ ControlInit
  /\ AgentInit
  /\ turn_config = "c1"
  /\ ExecInit
  /\ provider = NoProvider
  /\ approval_policy = "Auto"
  /\ ToolsIdle

GReserveNone(p) ==
  /\ ReserveUnbounded(p, "holding")
  /\ last' = "reserved"
  /\ UNCHANGED <<limit, net, dups>>
  /\ UNCHANGED <<ctlVars, spawnFrame>>

GReserveSome(p) ==
  /\ ReserveLoad(p, limit)
  /\ UNCHANGED <<limit, last, net, dups>>
  /\ UNCHANGED <<ctlVars, spawnFrame>>

GLimit(p) ==
  /\ TryIncLimit(p)
  /\ last' = "AgentLimitReached"
  /\ UNCHANGED <<limit, net, dups>>
  /\ UNCHANGED <<ctlVars, spawnFrame>>

GCasOk(p) ==
  /\ TryIncCasOk(p, "holding")
  /\ last' = "reserved"
  /\ UNCHANGED <<limit, net, dups>>
  /\ UNCHANGED <<ctlVars, spawnFrame>>

GCasRetry(p) ==
  /\ TryIncCasRetry(p)
  /\ UNCHANGED <<limit, last, net, dups>>
  /\ UNCHANGED <<ctlVars, spawnFrame>>

GCommit(p) ==
  /\ \E i \in Ids : Commit(p, i, "holding", "idle")
  /\ last' = "committed"
  /\ UNCHANGED <<limit, unbounded>>
  /\ UNCHANGED <<ctlVars, spawnFrame>>

GDrop(p) ==
  /\ DropReservation(p, "holding")
  /\ last' = "dropped"
  /\ UNCHANGED <<limit, unbounded, net, dups>>
  /\ UNCHANGED <<ctlVars, spawnFrame>>

GReleaseRemove(p) ==
  /\ \E i \in Ids : ReleaseRemove(p, i, "idle")
  /\ UNCHANGED <<limit, last, unbounded, net, dups>>
  /\ UNCHANGED <<ctlVars, spawnFrame>>

GReleaseFinish(p) ==
  /\ ReleaseFinish(p)
  /\ last' = (IF removed[p] THEN "released" ELSE "release_noop")
  /\ UNCHANGED <<limit, unbounded, dups>>
  /\ UNCHANGED <<ctlVars, spawnFrame>>

Next ==
  \E p \in Procs :
    \/ GReserveNone(p)
    \/ GReserveSome(p)
    \/ GLimit(p)
    \/ GCasOk(p)
    \/ GCasRetry(p)
    \/ GCommit(p)
    \/ GDrop(p)
    \/ GReleaseRemove(p)
    \/ GReleaseFinish(p)

Spec == Init /\ [][Next]_vars

\* callers that own a live (uncommitted) SpawnReservation
Holding == {p \in Procs : pc[p] = "holding"}

\* releases that removed their id from the set and have not yet decremented
PendingDec == {p \in Procs : pc[p] = "release" /\ removed[p]}

(***************************************************************************)
(* Specification of one turn of the turn executor: a caller runs           *)
(* process_turn once and may drop its future; the provider sends enough    *)
(* streams with function calls for the turn to reach the iteration cap,    *)
(* one of them with several function calls.                                *)
(***************************************************************************)

\* the spawn model at rest
SpawnIdle ==
  /\ GuardsInit
  /\ ProcInit
  /\ limit = 0
  /\ last = "none"
  /\ unbounded = FALSE
  /\ net = 0
  /\ dups = 0
  /\ ControlInit

\* AgentControl after new() and start(): status Ready
AgentStarted ==
  /\ status = St("Ready")
  /\ watch = St("Ready")
  /\ turn_config = "c1"
  /\ apc = [p \in Procs |-> "idle"]
  /\ cfgSnap = [p \in Procs |-> "none"]
  /\ reqCfg = [p \in Procs |-> <<>>]
  /\ reqFrom = St("Initializing")
  /\ req = St("Ready")
  /\ turnFrom = [p \in Procs |-> "none"]
  /\ disturbed = [p \in Procs |-> FALSE]
  /\ turnRet = [p \in Procs |-> "none"]

InitTurn ==
  /\ SpawnIdle
  /\ AgentStarted
  /\ ExecInit
  /\ provider = [rounds |-> MAX_ITERATIONS, deltas |-> MaxDeltas, multi |-> 1,
                 odd |-> 0]
  /\ approval_policy = "Auto"
  /\ ToolsIdle

\* the steps of the process_turn future
TurnStep ==
  \/ ProcessTurn
  \/ TurnStart
  \/ ItemStart
  \/ OpenStream
  \/ StreamNext
  \/ AppendAssistant
  \/ FinishItem
  \/ ToolCall
  \/ ItemDone
  \/ RunTurnEnd
  \/ ProcessTurnReturn

NextTurn ==
  \/ NewTurn(1)
  \/ DropTurn
  \/ TurnStep

SpecTurn == InitTurn /\ [][NextTurn]_vars

(***************************************************************************)
(* Specification of one turn of a session whose history has about          *)
(* HISTORY_LIMIT messages: an earlier turn made a tool call, answered it    *)
(* and replied, and the turns after it added a reply each.                 *)
(***************************************************************************)
InitLong ==
  /\ SpawnIdle
  /\ AgentStarted
  /\ epc = "idle"
  /\ iter = 0
  /\ assistant_delta = FALSE
  /\ function_calls = <<>>
  /\ \E replies \in (HISTORY_LIMIT - 2)..HISTORY_LIMIT :
       history =
         <<[role |-> "Assistant", content |-> FALSE, tool_calls |-> <<1>>],
           [role |-> "Tool", tool_call_id |-> 1, content |-> "hello from tool"]>>
           \o [i \in 1..replies |->
                 [role |-> "Assistant", content |-> TRUE, tool_calls |-> <<>>]]
  /\ raw = <<>>
  /\ result = "none"
  /\ modelCalls = 0
  /\ turnNo = 0
  /\ client = <<[kind |-> "SessionConfigured", turn |-> 0, src |-> "loop"]>>
  /\ rx_sub = <<>>
  /\ queue = <<>>
  /\ lpc = "recv"
  /\ processed = <<>>
  /\ nextSub = 1
  /\ messages = <<>>
  /\ request = <<>>
  /\ outputs = <<>>
  /\ detail = NoDetail
  /\ provider = [rounds |-> 1, deltas |-> MaxDeltas, multi |-> 1, odd |-> 0]
  /\ approval_policy = "Auto"
  /\ ToolsIdle

SpecLong == InitLong /\ [][NextTurn]_vars

(***************************************************************************)
(* Specification of the turn executor over several turns: a single caller  *)
(* runs up to MaxTurns turns; the provider sends at most MaxRounds streams *)
(* with function calls.                                                    *)
(***************************************************************************)
InitTurns ==
  /\ SpawnIdle
  /\ AgentStarted
  /\ ExecInit
  /\ provider = [rounds |-> MaxRounds, deltas |-> MaxDeltas, multi |-> MaxMulti,
                 odd |-> MaxOdd]
  /\ approval_policy \in ApprovalModes
  /\ ToolsIdle

NextTurns ==
  \/ NewTurn(MaxTurns)
  \/ DropTurn
  \/ TurnStep

SpecTurns == InitTurns /\ [][NextTurns]_vars

\* the future of process_turn is polled until it returns or is dropped
FairTurn == SpecTurn /\ WF_vars(TurnStep)

(***************************************************************************)
(* Specification of the tool calls of one turn: as SpecTurn, with a        *)
(* provider that sends at most MaxRounds streams with function calls and   *)
(* handlers that return, at most MaxOdd times, an id of their own or       *)
(* another content.                                                        *)
(***************************************************************************)
InitTools ==
  /\ SpawnIdle
  /\ AgentStarted
  /\ ExecInit
  /\ provider = [rounds |-> MaxRounds, deltas |-> MaxDeltas, multi |-> MaxMulti,
                 odd |-> MaxOdd]
  /\ approval_policy = "Auto"
  /\ ToolsIdle

SpecTools == InitTools /\ [][NextTurn]_vars

(***************************************************************************)
(* Specification of the runtime: clients submit, the submission loop runs  *)
(* the turns and the forwarder task forwards the events of the executor;   *)
(* the provider sends streams without function calls.                      *)
(***************************************************************************)
InitLoop ==
  /\ SpawnIdle
  /\ AgentStarted
  /\ ExecInit
  /\ provider = [rounds |-> 0, deltas |-> MaxDeltas, multi |-> 0, odd |-> 0]
  /\ approval_policy = "Auto"
  /\ ToolsIdle

NextLoop ==
  \/ Submit
  \/ LoopNext
  \/ SelectDone
  \/ SelectRecv
  \/ Forward
  \/ ProcessTurn
  \/ TurnStart
  \/ ItemStart
  \/ OpenStream
  \/ StreamNext
  \/ AppendAssistant
  \/ FinishItem
  \/ RunTurnEnd
  \/ ProcessTurnReturn

SpecLoop == InitLoop /\ [][NextLoop]_vars

(***************************************************************************)
(* Specification of the submission loop alone: as SpecLoop, with a         *)
(* provider that sends no content and a forwarder task that is not         *)
(* scheduled (the raw events stay on the raw channel).                     *)
(***************************************************************************)
InitQueue ==
  /\ SpawnIdle
  /\ AgentStarted
  /\ ExecInit
  /\ provider = NoProvider
  /\ approval_policy = "Auto"
  /\ ToolsIdle

NextQueue ==
  \/ Submit
  \/ LoopNext
  \/ SelectDone
  \/ SelectRecv
  \/ ProcessTurn
  \/ TurnStart
  \/ ItemStart
  \/ OpenStream
  \/ StreamNext
  \/ AppendAssistant
  \/ FinishItem
  \/ RunTurnEnd
  \/ ProcessTurnReturn

SpecQueue == InitQueue /\ [][NextQueue]_vars

(***************************************************************************)
(* Specification of the validator: a tool call of any tool, under any      *)
(* approval mode, with an argument that is a string or a number, nested in *)
(* arrays and objects up to MaxNest deep.                                  *)
(***************************************************************************)
InitValidate ==
  /\ SpawnIdle
  /\ AgentStarted
  /\ ExecInit
  /\ provider = NoProvider
  /\ approval_policy \in ApprovalModes
  /\ tool_name \in {"shell", "read_file"}
  /\ \/ value = [kind |-> "number", s |-> <<>>, keys |-> <<>>, items |-> <<>>]
     \/ \E str \in Strs :
          value = [kind |-> "string", s |-> str, keys |-> <<>>, items |-> <<>>]
  /\ nest = 0
  /\ args = [kind |-> "object", s |-> <<>>, keys |-> <<>>, items |-> <<>>]
  /\ verdict = "none"
  /\ source = <<>>
  /\ out = <<>>
  /\ text_index = 0
  /\ buffer = <<>>
  /\ active_call_id = Empty
  /\ emitted_end_turn = FALSE
  /\ ppc = "done"
  /\ WireIdle

NextValidate ==
  \/ Wrap
  \/ Validate

SpecValidate == InitValidate /\ [][NextValidate]_vars

(***************************************************************************)
(* Specification of the projector: it reads a chunk stream of at most      *)
(* MaxChunks chunks, of any content, to its end or to its first error.     *)
(***************************************************************************)
InitProject ==
  /\ SpawnIdle
  /\ AgentStarted
  /\ ExecInit
  /\ provider = NoProvider
  /\ approval_policy = "Auto"
  /\ tool_name = "none"
  /\ value = [kind |-> "number", s |-> <<>>, keys |-> <<>>, items |-> <<>>]
  /\ nest = 0
  /\ args = [kind |-> "object", s |-> <<>>, keys |-> <<>>, items |-> <<>>]
  /\ verdict = "none"
  /\ source = <<>>
  /\ out = <<>>
  /\ text_index = 0
  /\ buffer = <<>>
  /\ active_call_id = Empty
  /\ emitted_end_turn = FALSE
  /\ ppc = "run"
  /\ WireIdle

NextProject ==
  \/ ProjectChunk
  \/ ProjectEnd

SpecProject == InitProject /\ [][NextProject]_vars

(***************************************************************************)
(* Specifications of the wire layer, each from the state before any input. *)
(***************************************************************************)
InitIdle ==
  /\ SpawnIdle
  /\ AgentStarted
  /\ ExecInit
  /\ provider = NoProvider
  /\ approval_policy = "Auto"
  /\ ToolsIdle

\* the usage parsers fed up to MaxParses chunks
SpecUsage == InitIdle /\ [][Parse]_vars

\* normalize_tool_call_id called with any id and format
SpecNormalize == InitIdle /\ [][Normalize]_vars

\* two runtimes spawned and shut down in any order, with spawn_agent tool
\* calls in their turns
NextSlot ==
  \E r \in Runtimes :
    \/ CokraSpawn(r)
    \/ CokraShutdown(r)
    \/ SpawnAgentHandle(r)

SpecSlot == InitIdle /\ [][NextSlot]_vars

\* a response body of up to MaxBody bytes read in any segments
NextRead ==
  \/ ReadBytes
  \/ ReadEnd

SpecRead == InitIdle /\ [][NextRead]_vars

\* requests to Anthropic with two tool calls and their results
SpecPairing == InitIdle /\ [][ToAnthropic]_vars

(***************************************************************************)
(* Claims about Guards                                                     *)
(***************************************************************************)

\* C1: when every reservation is requested with max_threads = Some(limit), the
\* counter never exceeds limit, in any state, the states between the load and
\* the compare-and-swap of the reservation loop included.
C1_CountNeverExceedsLimit == ~unbounded => total_count <= limit

\* a caller sits between its load and its CAS with a stale value below the
\* limit while the counter is full
C1_Witness ==
  /\ ~unbounded /\ limit = MaxLimit /\ total_count = limit
  /\ \E p \in Procs : pc[p] = "try_inc" /\ cur[p] < limit

\* C3 as stated: the counter equals the size of the registered-thread set in
\* every reachable state.
C3_CountEqualsRegistered == total_count = Cardinality(threads_set)

\* C3 amended: the counter equals the size of the registered-thread set plus the
\* live uncommitted reservations, plus the releases that removed their id and
\* have not yet decremented, plus the commits that re-registered an id.
C3_CountAccounting ==
  total_count =
    Cardinality(threads_set) + Cardinality(Holding) + Cardinality(PendingDec) + dups

C3_Witness ==
  /\ Cardinality(threads_set) >= 1
  /\ Cardinality(Holding) >= 1
  /\ total_count > Cardinality(threads_set)

\* C4: whenever no SpawnReservation is live, the counter equals the number of
\* commits minus the number of releases that released a committed id, whatever
\* thread ids were passed to commit and release.
C4_CountIsCommitsMinusReleases == Holding = {} => total_count = net

\* two commits of the same id followed by one release of it
C4_Witness ==
  /\ Holding = {} /\ dups = 1 /\ net = 1 /\ threads_set = {} /\ last = "released"

\* C5: a bounded reservation ends with AgentLimitReached exactly when the value
\* it observed last is >= N, and then leaves the counter alone; it ends with Ok
\* by moving the counter atomically from an observed k < N to k + 1; a failed
\* CAS retries with the updated value; an unbounded reservation adds exactly 1.
C5_ReserveOutcome ==
  [][\A p \in Procs :
       /\ (pc[p] = "try_inc" /\ pc'[p] # "try_inc") =>
            /\ pc'[p] = "idle" <=> cur[p] >= maxT[p]
            /\ pc'[p] = "idle" => total_count' = total_count
            /\ pc'[p] # "idle" =>
                 /\ pc'[p] = "holding"
                 /\ cur[p] < maxT[p]
                 /\ total_count = cur[p]
                 /\ total_count' = cur[p] + 1
       /\ (pc[p] = "try_inc" /\ pc'[p] = "try_inc" /\ cur'[p] # cur[p]) =>
            /\ cur[p] < maxT[p]
            /\ cur'[p] = total_count
            /\ total_count' = total_count
       /\ (pc[p] = "idle" /\ pc'[p] = "holding") => total_count' = total_count + 1
    ]_vars

\* a caller holds a stale value below N while the counter is full: its CAS
\* fails, it retries and only then gets AgentLimitReached
C5_Witness ==
  \E p \in Procs :
    /\ pc[p] = "try_inc" /\ maxT[p] = limit
    /\ cur[p] < limit /\ total_count >= limit

\* C6: dropping an uncommitted reservation decrements the counter exactly once
\* and frees the slot for a bounded reservation; commit leaves the counter
\* unchanged, so the slot stays taken.
C6_DropFreesCommitKeeps ==
  [][\A p \in Procs :
       (pc[p] = "holding" /\ pc'[p] = "idle") =>
         IF net' = net
           THEN /\ total_count' = total_count - 1
                /\ ~unbounded => total_count' < limit
           ELSE /\ total_count' = total_count
                /\ total_count' >= 1
    ]_vars

\* a reservation taken under Some(1) was dropped and the counter is back to 0
C6_Witness ==
  /\ last = "dropped" /\ ~unbounded /\ limit = 1 /\ total_count = 0

\* C7: release removes the id from the set and decrements the counter by 1 only
\* if the id was in the set; otherwise it changes neither, also when two
\* releases of one id run at the same time.
C7_ReleaseOnlyIfRegistered ==
  [][\A p \in Procs :
       /\ (pc[p] = "idle" /\ pc'[p] = "release") =>
            /\ removed'[p] <=> tid'[p] \in threads_set
            /\ threads_set' = threads_set \ {tid'[p]}
            /\ total_count' = total_count
       /\ (pc[p] = "release" /\ pc'[p] = "idle") =>
            /\ threads_set' = threads_set
            /\ total_count' = IF removed[p] THEN total_count - 1 ELSE total_count
            /\ total_count' >= Cardinality(threads_set)
    ]_vars

\* two releases of the same id are in flight: one removed it, the other did not
C7_Witness ==
  \E p, q \in Procs :
    /\ pc[p] = "release" /\ pc[q] = "release" /\ tid[p] = tid[q]
    /\ removed[p] /\ ~removed[q]

(***************************************************************************)
(* Claims about AgentControl::spawn_agent / shutdown_spawned_agent         *)
(***************************************************************************)

\* no spawn_agent and no shutdown_spawned_agent call is in progress
AllIdle == \A p \in Procs : pc[p] = "idle"

\* the spawned (non-root) entries of the registry
LiveSpawned == DOMAIN threads \ {Root}

\* C2: whenever no spawn_agent or shutdown_spawned_agent call is in progress,
\* spawned_count() equals the number of non-root entries of the registry.
C2_NoLeakedSlot == AllIdle => total_count = Cardinality(LiveSpawned)

\* C8: the registry size is always 1 (the root) plus the number of live
\* spawned agents, and when fewer than N spawned agents are live and no call is
\* in progress (e.g. after a shutdown of a live spawned agent) a slot is free,
\* so that the next spawn_agent with Some(N) succeeds.
C8_SlotFreeAfterShutdown ==
  /\ Cardinality(DOMAIN threads) = 1 + Cardinality(LiveSpawned)
  /\ (AllIdle /\ ~unbounded /\ Cardinality(LiveSpawned) < limit) =>
       total_count < limit

\* C9 as stated: every spawn_agent with depth > MAX_THREAD_SPAWN_DEPTH fails
\* with the spawn-depth error.
C9_DeepSpawnGetsDepthError ==
  lastDepth > MAX_THREAD_SPAWN_DEPTH => last = "DepthExceeded"

\* C9 amended: a spawn_agent with depth > MAX_THREAD_SPAWN_DEPTH fails at its
\* argument checks, with the spawn-depth error when its task is not blank and
\* with the empty-task error when it is, and changes neither the counter, the
\* guard set, the registry, the event stream nor the thread-created
\* broadcast; the spawn-depth error is given for no depth <= the limit; no
\* registry entry has a depth above the limit.
C9_DepthLimit ==
  /\ [][(lastDepth' > MAX_THREAD_SPAWN_DEPTH
          /\ <<last, lastDepth>>' # <<last, lastDepth>>) =>
         /\ last' \in {"DepthExceeded", "EmptyTask"}
         /\ UNCHANGED <<total_count, threads_set, threads, nextId, events,
                        created, pc>>
       ]_vars
  /\ [](lastDepth > MAX_THREAD_SPAWN_DEPTH =>
          last \in {"DepthExceeded", "EmptyTask"})
  /\ [](last = "DepthExceeded" => lastDepth > MAX_THREAD_SPAWN_DEPTH)
  /\ [](\A id \in DOMAIN threads : threads[id] <= MAX_THREAD_SPAWN_DEPTH)

\* a spawn with depth 2 was rejected for its depth while a spawned agent of
\* depth 1 is registered and holds a slot
C9_Witness ==
  /\ last = "DepthExceeded" /\ lastDepth = MAX_THREAD_SPAWN_DEPTH + 1
  /\ \E id \in LiveSpawned : threads[id] = MAX_THREAD_SPAWN_DEPTH
  /\ total_count >= 1

(***************************************************************************)
(* Claims about the status FSM of AgentControl                             *)
(***************************************************************************)

\* the transitions the specification of the FSM enumerates
C10_Enumerated ==
  { <<"PendingInit", "Initializing">>, <<"Initializing", "Ready">>,
    <<"Initializing", "Error">>, <<"Ready", "Busy">>, <<"Ready", "Shutdown">>,
    <<"Busy", "Ready">>, <<"Busy", "Error">>, <<"Busy", "Shutdown">>,
    <<"Error", "Ready">>, <<"Error", "Shutdown">> }

C11_OneTurnAtATime ==
  Cardinality({p \in Procs : apc[p] = "run_turn"}) <= 1

Delivered == DOMAIN client

\* C13: on the client event channel no event produced by a turn is delivered
\* after the TurnAborted{reason: "interrupted"} of that turn.
C13_NothingAfterInterrupt ==
  \A i, j \in Delivered :
    (/\ i < j
     /\ client[i].kind = "TurnAborted:interrupted"
     /\ client[j].src = "exec")
      => client[j].turn # client[i].turn

\* the events that end a turn for the client
Terminal == {"TurnComplete", "TurnAborted:interrupted", "Error"}

\* the terminal events delivered for turn t
TerminalEvents(t) ==
  {i \in Delivered : client[i].turn = t /\ client[i].kind \in Terminal}

\* turn t is over, no Shutdown was handled during it or right after it, and
\* every event it produced has been forwarded
TurnSettled(t) ==
  /\ t < turnNo \/ lpc # "select"
  /\ \A i \in Delivered :
       client[i].kind = "ShutdownComplete" => client[i].turn # t
  /\ \A i \in DOMAIN raw : raw[i].turn # t

\* C14: for every turn the client event channel receives exactly one terminal
\* event (TurnComplete, TurnAborted or Error): never two, and not zero once the
\* turn is over (a turn that a Shutdown ended is left aside).
C14_OneTerminalEvent ==
  \A t \in 1..turnNo :
    /\ Cardinality(TerminalEvents(t)) <= 1
    /\ TurnSettled(t) => Cardinality(TerminalEvents(t)) = 1

\* C15: once ShutdownComplete has been emitted the loop has exited, and
\* ShutdownComplete is the last event on the client event channel.
C15_NothingAfterShutdown ==
  \A i \in Delivered :
    client[i].kind = "ShutdownComplete" => lpc = "exited" /\ i = Len(client)

\* the operations that are never held in the FIFO
Urgent == {"Interrupt", "Shutdown"}

\* the numbers of the submissions in a sequence of submissions
IdsOf(q) == {q[i].id : i \in DOMAIN q}

\* a sequence of submissions is in arrival order
InArrivalOrder(q) == \A i, j \in DOMAIN q : i < j => q[i].id < q[j].id

\* C16: the submissions other than Interrupt and Shutdown are handled in
\* arrival order, each at most once; the FIFO holds the submissions that arrived
\* during a turn in arrival order, all of them older than the submissions still
\* on the channel; a held submission is handled only when no turn runs; and as
\* long as no Shutdown was handled every submission made so far is either
\* handled, or in the FIFO, or on the channel, and in one of them only.
C16_FifoOrder ==
  /\ [](InArrivalOrder(SelectSeq(processed, LAMBDA e : e.op \notin Urgent)))
  /\ [](InArrivalOrder(queue \o rx_sub))
  /\ [](\A i \in DOMAIN queue : queue[i].op \notin Urgent)
  /\ [](IdsOf(processed) \cap IdsOf(queue \o rx_sub) = {})
  /\ []((\A i \in DOMAIN processed : processed[i].op # "Shutdown")
          => IdsOf(processed) \cup IdsOf(queue \o rx_sub) = 1..(nextSub - 1))
  /\ [](Len(processed) = Cardinality(IdsOf(processed)))
  /\ [][Len(processed') > Len(processed)
          /\ processed'[Len(processed')].from = "queue"
            => lpc = "recv" /\ epc = "idle"]_vars

\* a turn, then a turn taken from the FIFO, then another held submission,
\* handled in the order of their arrival
C16_Witness ==
  /\ Len(processed) = 3
  /\ processed[1].op = "UserInput" /\ processed[1].from = "channel"
  /\ processed[2].op = "UserInput" /\ processed[2].from = "queue"
  /\ processed[3].op = "Other" /\ processed[3].from = "queue"
  /\ processed[1].id < processed[2].id /\ processed[2].id < processed[3].id

\* C17: every event of a turn is delivered before any event the submission
\* loop emits for the outcome of that turn or for a later submission, and
\* before the events of later turns.
C17_TurnEventsFirst ==
  \A i, j \in Delivered :
    (i < j /\ client[j].src = "exec")
      => IF client[i].src = "loop"
           THEN client[i].turn < client[j].turn
           ELSE client[i].turn <= client[j].turn

(***************************************************************************)
(* Claims about the turn executor                                          *)
(***************************************************************************)

\* one step of the automaton of
\* TurnStarted (ItemStarted ContentDelta* ItemCompleted)* (TurnComplete |
\* TurnAborted | Error)
GrammarStep(q, kind) ==
  CASE q = "begin" /\ kind = "TurnStarted" -> "turn"
    [] q = "turn" /\ kind = "ItemStarted" -> "item"
    [] q = "item" /\ kind = "ContentDelta" -> "item"
    [] q = "item" /\ kind = "ItemCompleted" -> "turn"
    [] q = "turn" /\ kind \in {"TurnComplete", "TurnAborted", "Error"} -> "end"
    [] OTHER -> "bad"

\* the state of the automaton after the events es, started in state q
RECURSIVE Grammar(_, _)
Grammar(q, es) ==
  IF es = <<>> THEN q ELSE Grammar(GrammarStep(q, Head(es).kind), Tail(es))

\* the number of events of a kind among the events es
CountKind(es, kind) == Len(SelectSeq(es, LAMBDA e : e.kind = kind))

\* C18: the events the executor has emitted in a turn are a prefix of a word of
\* TurnStarted (ItemStarted ContentDelta* ItemCompleted)* (TurnComplete |
\* TurnAborted | Error); when the turn has returned they are a whole word, with
\* as many ItemStarted and as many ItemCompleted as model calls.
C18_EventGrammar ==
  /\ Grammar("begin", raw) # "bad"
  /\ epc = "returned" =>
       /\ Grammar("begin", raw) = "end"
       /\ CountKind(raw, "ItemStarted") = modelCalls
       /\ CountKind(raw, "ItemCompleted") = modelCalls

\* the iteration cap has ended the turn
CapReached == result = "too many tool call iterations"

\* C19: a turn makes at most MAX_ITERATIONS model calls and runs at most
\* MAX_ITERATIONS iterations; after MAX_ITERATIONS iterations that ended with
\* function calls the next step of the turn fails with SessionError("too many
\* tool call iterations"), after MAX_ITERATIONS model calls; the Error event is
\* then sent and no TurnComplete, and process_turn returns the error; every
\* turn that is polled returns or is dropped.
C19_IterationCap ==
  /\ [](modelCalls <= MAX_ITERATIONS /\ iter <= MAX_ITERATIONS)
  /\ [][epc = "loop" /\ iter = MAX_ITERATIONS /\ epc' # "idle"
          => epc' = "failed" /\ CapReached' /\ raw' = raw]_vars
  /\ [](CapReached => iter = MAX_ITERATIONS /\ modelCalls = MAX_ITERATIONS
                        /\ CountKind(raw, "TurnComplete") = 0)
  /\ [](CapReached /\ epc \in {"err", "returned"}
          => raw[Len(raw)].kind = "Error" /\ CountKind(raw, "Error") = 1)
  /\ [](CapReached /\ epc = "returned" => status = ErrorSt(result))
  /\ (epc = "created") ~> (epc \in {"idle", "returned"})

\* process_turn has returned the error of the iteration cap after
\* MAX_ITERATIONS model calls
C19_Witness ==
  /\ epc = "returned" /\ CapReached
  /\ modelCalls = MAX_ITERATIONS
  /\ CountKind(raw, "ItemCompleted") = MAX_ITERATIONS
  /\ raw[Len(raw)].kind = "Error"

\* the tool-call id k of the Assistant message at position i of the history
\* is answered: a Tool message with that id follows before the next Assistant
\* message
Answered(i, k) ==
  \E j \in (i + 1)..Len(history) :
    /\ history[j].role = "Tool"
    /\ history[j].tool_call_id = history[i].tool_calls[k]
    /\ \A m \in (i + 1)..(j - 1) : history[m].role # "Assistant"

\* C20: whenever no turn runs, every tool-call id of every Assistant message of
\* the session history is answered.
C20_ToolCallsAnswered ==
  ~TurnRuns =>
    \A i \in DOMAIN history :
      history[i].role = "Assistant" =>
        \A k \in DOMAIN history[i].tool_calls : Answered(i, k)

\* C21: the request of an iteration that follows an iteration with function
\* calls c1..cn ends with the Assistant message that carries c1..cn and then one
\* Tool message per call, in the order c1..cn, each with the content the handler
\* returned and with the id the handler returned or, when that is empty, the id
\* of the call.
C21_ToolMessagesInRequest ==
  (iter >= 2 /\ (epc = "stream" \/ (epc = "failed" /\ result = "ModelError")))
    => LET n == Len(outputs)
           a == Len(request) - n
       IN /\ n >= 1 /\ a >= 1
          /\ request[a].role = "Assistant"
          /\ Len(request[a].tool_calls) = n
          /\ \A j \in 1..n :
               /\ outputs[j].call = request[a].tool_calls[j]
               /\ request[a + j].role = "Tool"
               /\ request[a + j].content = outputs[j].content
               /\ request[a + j].tool_call_id =
                    IF outputs[j].id = Empty
                      THEN request[a].tool_calls[j] ELSE outputs[j].id

\* the second request of a turn follows two calls: the handler of the first
\* returned an id and a content of its own, the handler of the second left the
\* id empty
C21_Witness ==
  /\ epc = "stream" /\ iter = 2
  /\ Len(outputs) = 2
  /\ outputs[1].id = ForeignId /\ outputs[2].id = Empty
  /\ request[Len(request) - 1].tool_call_id = ForeignId
  /\ request[Len(request) - 1].content = "other output"
  /\ request[Len(request)].tool_call_id = 2

\* C22: after a turn for the user input u the session history contains User(u)
\* before the Assistant messages the turn appended, and in the message list of
\* a turn every Assistant message of an earlier turn comes after the User
\* message of its turn.
C22_UserMessageInHistory ==
  /\ (epc \in {"done", "returned"} /\ result = "Ok")
       => \E i, j \in DOMAIN history :
            /\ i < j
            /\ history[i].role = "User" /\ history[i].content = turnNo
            /\ history[j].role = "Assistant"
  /\ \A j \in DOMAIN messages :
       messages[j].role = "Assistant"
         => \E i \in 1..(j - 1) : messages[i].role = "User"

\* C23: a tool call whose handler exists, also one whose handler returns an
\* error, does not end the turn: a Tool message for the call is appended, the
\* remaining calls of the iteration stay to be executed, and no turn fails with
\* the error of a handler.
C23_ToolErrorDoesNotAbort ==
  /\ [][(/\ epc = "tools" /\ function_calls # <<>>
          /\ epc' # "idle" /\ result' # "ToolNotFound")
          => /\ epc' = "tools"
             /\ function_calls' = Tail(function_calls)
             /\ Len(history') = Len(history) + 1
             /\ history'[Len(history')].role = "Tool"
             /\ history'[Len(history')].tool_call_id \in
                  {Head(function_calls), ForeignId}]_vars
  /\ [](result # "ToolError")

\* C24: when the model stream delivers Error{message} the turn ends with
\* ModelError(StreamError(message)): no further model call is made, one Error
\* event is emitted, its user_facing_message equals message, and no
\* TurnComplete is emitted.
C24_StreamErrorEndsTurn ==
  /\ [][result = "StreamError" /\ result' = "StreamError"
          => modelCalls' = modelCalls /\ detail'.message = detail.message]_vars
  /\ [](result = "StreamError" => detail.message \in StreamMsgs)
  /\ [](result = "StreamError" /\ epc \in {"err", "returned"}
          => /\ raw[Len(raw)].kind = "Error"
             /\ CountKind(raw, "Error") = 1
             /\ CountKind(raw, "TurnComplete") = 0
             /\ detail.user_facing = detail.message)

\* C25: the turn executor invokes a tool handler only for a call the validator
\* has approved: with approval mode Never, and with mode Ask (the executor asks
\* nobody for an approval), no handler is invoked, so no handler has returned
\* an output or an error and the history holds no Tool message.
C25_NoHandlerWithoutApproval ==
  approval_policy \in {"Never", "Ask"}
    => /\ outputs = <<>>
       /\ result # "ToolError"
       /\ \A i \in DOMAIN history : history[i].role # "Tool"

\* C30: every ChatRequest built during one process_turn call carries the
\* TurnConfig that process_turn cloned at its start: while the turn runs its
\* clone does not change and the requests already built keep what they
\* carried, whatever set_turn_config stores meanwhile, and the clone a turn
\* takes is the TurnConfig stored last.
C30_StableTurnConfig ==
  /\ [](\A p \in Procs :
         apc[p] = "run_turn" =>
           /\ cfgSnap[p] \in Configs
           /\ \A i \in 1..Len(reqCfg[p]) : reqCfg[p][i] = cfgSnap[p])
  /\ [][\A p \in Procs :
         /\ (apc[p] = "run_turn" /\ apc'[p] = "run_turn") =>
              /\ cfgSnap'[p] = cfgSnap[p]
              /\ Len(reqCfg'[p]) >= Len(reqCfg[p])
              /\ SubSeq(reqCfg'[p], 1, Len(reqCfg[p])) = reqCfg[p]
         /\ (apc[p] = "turn_config" /\ apc'[p] = "run_turn") =>
              cfgSnap'[p] = turn_config]_vars

\* a turn has built two requests with the configuration it cloned while the
\* shared TurnConfig holds another one, stored by a concurrent caller
C30_Witness ==
  \E p \in Procs :
    /\ apc[p] = "run_turn"
    /\ Len(reqCfg[p]) = MaxReqs
    /\ turn_config # cfgSnap[p]
    /\ \A i \in 1..Len(reqCfg[p]) : reqCfg[p][i] = cfgSnap[p]

(***************************************************************************)
(* Claims about the tool validator                                         *)
(***************************************************************************)

\* the strings that are values in a JSON value, at any depth
RECURSIVE StringsIn(_)
StringsIn(v) ==
  CASE v.kind = "string" -> {v.s}
    [] v.kind \in {"array", "object"} ->
         UNION {StringsIn(v.items[i]) : i \in DOMAIN v.items}
    [] OTHER -> {}

\* a string with the substring "../" or "..\"
Traverses(s) ==
  \E i \in 1..(Len(s) - 2) :
    s[i] = "." /\ s[i + 1] = "." /\ s[i + 2] \in {"/", "\\"}

\* C26: validate_tool_call returns PathTraversal exactly for the calls whose
\* arguments hold, at any nesting depth, a string value with the substring "../"
\* or "..\", for every tool name and every approval mode.
C26_PathTraversalRejected ==
  verdict # "none" =>
    (verdict = "PathTraversal" <=> \E s \in StringsIn(args) : Traverses(s))

\* a shell call under approval mode Never whose argument holds, two levels
\* deep in an array, a string with "../" and a denylisted command, has been
\* rejected as PathTraversal
C26_Witness ==
  /\ verdict = "PathTraversal"
  /\ tool_name = "shell" /\ approval_policy = "Never"
  /\ nest = 2 /\ args.items[1].kind = "array"
  /\ \E s \in StringsIn(args) : Traverses(s) /\ s[1] = "mkfs"


(***************************************************************************)
(* Claims about the stream projector                                       *)
(***************************************************************************)

\* C27: in the projected event stream no FunctionCall follows an EndTurn, and
\* each FunctionCall comes after every ContentDelta whose source chunk came
\* before the first tool-call chunk of that call.
C27_FunctionCallsBeforeEndTurn ==
  \A i, j \in 1..Len(out) :
    /\ (out[i].kind = "EndTurn" /\ out[j].kind = "FunctionCall") => j < i
    /\ (out[i].kind = "ContentDelta" /\ out[j].kind = "FunctionCall"
          /\ out[i].at < out[j].first) => i < j

\* C28: the FunctionCall events of the buffered calls are emitted in the
\* order in which the ids of the calls were first seen in the chunk stream,
\* and a buffered call with an empty name is not emitted.
C28_InsertionOrder ==
  \A i, j \in 1..Len(out) :
    /\ out[i].kind = "FunctionCall" => out[i].name # ""
    /\ (out[i].kind = "FunctionCall" /\ out[j].kind = "FunctionCall" /\ i < j)
         => out[i].first < out[j].first

\* the concatenation of the texts of a sequence of chunks or events
RECURSIVE Concat(_)
Concat(q) == IF q = <<>> THEN <<>> ELSE Head(q).text \o Concat(Tail(q))

ContentDeltas == SelectSeq(out, LAMBDA ev : ev.kind = "ContentDelta")

ContentChunks == SelectSeq(source, LAMBDA c : c.kind = "Content")

\* C29: the ContentDelta events are the Content chunks with a non-empty text,
\* one each and in source order, numbered 0, 1, 2, ... without gaps, and the
\* concatenation of their texts is that of the source texts.
C29_ContentDeltas ==
  LET kept == SelectSeq(ContentChunks, LAMBDA c : c.text # <<>>)
  IN /\ Len(ContentDeltas) = Len(kept)
     /\ \A i \in 1..Len(kept) :
          /\ ContentDeltas[i].text = kept[i].text
          /\ ContentDeltas[i].index = i - 1
          /\ source[ContentDeltas[i].at] = kept[i]
     /\ \A i, j \in 1..Len(ContentDeltas) :
          i < j => ContentDeltas[i].at < ContentDeltas[j].at
     /\ Concat(ContentDeltas) = Concat(ContentChunks)
     /\ text_index = Len(ContentDeltas)

\* a text, an empty text and a second text were projected, and the stream
\* was read to its end
C29_Witness ==
  /\ ppc = "done"
  /\ Len(ContentChunks) = 3
  /\ ContentChunks[1].text = <<"a">>
  /\ ContentChunks[2].text = <<>>
  /\ ContentChunks[3].text = <<"b">>
  /\ Len(ContentDeltas) = 2
  /\ ContentDeltas[2].index = 1


\* the number of events of one kind sent so far
CountEvents(kind) == Cardinality({i \in DOMAIN events : events[i] = kind})

\* the ids published on the thread-created broadcast
Published == {created[i] : i \in DOMAIN created}

\* the steps of spawn_agent that are the same in the order as stated and in
\* the order found: the Begin event is sent under a live reservation, the
\* insertion follows the call's Begin event and precedes publication and
\* commit, the End event follows commit and publication, and a call that
\* returns a failure has sent no event, published no id and inserted nothing
SpawnOrderCommon ==
  /\ (Len(events') > Len(events)
        /\ events'[Len(events')] = "CollabAgentSpawnBegin")
       => total_count > Cardinality(threads_set)
  /\ \A id \in DOMAIN threads' \ DOMAIN threads :
       /\ CountEvents("CollabAgentSpawnBegin") = id
       /\ id \notin threads_set /\ id \notin Published
  /\ (Len(events') > Len(events)
        /\ events'[Len(events')] = "CollabAgentSpawnEnd")
       => /\ CountEvents("CollabAgentSpawnBegin") = nextId - 1
          /\ (nextId - 1) \in threads_set \cap Published \cap DOMAIN threads
  /\ \A p \in Procs :
       (pc[p] \in {"send_begin", "spawn_thread", "commit", "notify",
                   "send_end"} /\ pc'[p] = "idle")
         => last' \in {"Spawned", "Cancelled"}
  /\ (\A p \in Procs : pc[p] \in {"idle", "try_inc"})
       => /\ UNCHANGED <<events, created, threads_set>>
          /\ DOMAIN threads' \subseteq DOMAIN threads

C36_RootStays == Root \in DOMAIN threads

\* C34: when the chunk stream has ended without an error, the projected
\* stream holds exactly one EndTurn and it is its last event.
C34_OneEndTurnLast ==
  (ppc = "done" /\ \A i \in DOMAIN source : source[i].kind # "Err") =>
    /\ Cardinality({i \in DOMAIN out : out[i].kind = "EndTurn"}) = 1
    /\ out[Len(out)].kind = "EndTurn"

\* C35: whenever the submission loop is not running a turn, the agent
\* status is not Busy.
C35_NotBusyOutsideTurn == lpc # "select" => status.tag # "Busy"

\* C38: in every message list sent to the model, each Tool message is
\* preceded by an Assistant message that carries a tool call with the
\* tool_call_id of the Tool message.
C38_ToolMessagesHaveCalls ==
  \A i \in DOMAIN request :
    request[i].role = "Tool" =>
      \E j \in 1..(i - 1) :
        /\ request[j].role = "Assistant"
        /\ \E k \in DOMAIN request[j].tool_calls :
             request[j].tool_calls[k] = request[i].tool_call_id

(***************************************************************************)
(* Claims about the wire layer                                             *)
(***************************************************************************)

\* C31: once retrieve() has returned a usage with a non-zero input_tokens,
\* output_tokens or total_tokens, after no later parse call does it return
\* None or a usage in which that count is zero.
C31_NeverDowngraded ==
  \A i, j \in 1..Len(retrieved) : \A k \in DOMAIN usage :
    \A u \in retrieved[i][k] :
      i < j =>
        /\ retrieved[j][k] # {}
        /\ \A w \in retrieved[j][k] :
             /\ u.input_tokens # 0 => w.input_tokens # 0
             /\ u.output_tokens # 0 => w.output_tokens # 0
             /\ u.total_tokens # 0 => w.total_tokens # 0


\* the i-th ASCII alphanumeric character of an id
NthAlnum(id, i) ==
  LET pos == {p \in 1..Len(id) : id[p] = "a"}
  IN id[CHOOSE p \in pos : Cardinality({q \in pos : q < p}) = i - 1]

\* C32: Default returns the id unchanged; Sanitize returns as many characters
\* as the id has, keeping those of [A-Za-z0-9_-] and writing "_" for the
\* others; Alphanumeric9 returns exactly 9 characters, the first up to 9
\* alphanumeric characters of the id in order and then "0"s; and normalizing
\* the result again gives the result.
C32_Normalization ==
  LET alnum == Cardinality({p \in 1..Len(raw_id) : raw_id[p] = "a"})
      k == IF alnum < 9 THEN alnum ELSE 9
  IN /\ format = "Default" => normalized = raw_id
     /\ format = "Sanitize" =>
          /\ Len(normalized) = Len(raw_id)
          /\ \A i \in 1..Len(raw_id) :
               normalized[i] = (IF raw_id[i] \in {"a", "-"} THEN raw_id[i]
                                ELSE "_")
     /\ format = "Alphanumeric9" =>
          /\ Len(normalized) = 9
          /\ \A i \in 1..k : normalized[i] = NthAlnum(raw_id, i)
          /\ \A i \in (k + 1)..9 : normalized[i] = "0"
     /\ format \in ToolCallIdFormats =>
          normalize_tool_call_id(normalized, format) = normalized

\* an id of ten alphanumeric characters was cut to nine
C32_Witness ==
  /\ format = "Alphanumeric9"
  /\ raw_id = <<"a", "a", "a", "a", "a", "a", "a", "a", "a", "a">>
  /\ normalized = <<"a", "a", "a", "a", "a", "a", "a", "a", "a">>

\* C40: two tool calls of a request with different ids get different
\* normalized ids, so that every tool_result block refers to exactly one
\* tool_use block.
C40_PairingUnambiguous ==
  \A i \in DOMAIN blocks :
    blocks[i].type = "tool_result" =>
      Cardinality({j \in DOMAIN blocks :
                     blocks[j].type = "tool_use" /\ blocks[j].id = blocks[i].id})
        = 1


\* C37: a spawn_agent tool call made during a turn of a runtime reaches the
\* AgentControl of that runtime, whatever other runtimes of the process were
\* spawned or shut down before.
C37_SlotDesignatesCaller ==
  tool_result.turn_of # "None" => tool_result.reached = tool_result.turn_of


\* C39: the chunks yielded for a body are those yielded when the whole body
\* arrives in one read, however the body was segmented into reads.
C39_SegmentationIndependent ==
  spc = "done" =>
    yielded = drain_events(replace(body)).chunks
                \o finish(drain_events(replace(body)).rest)

====
